---- MODULE Spec2Model ----
(***************************************************************************)
(* The workflow engine of app/lib/workflow/WorkflowManager.ts together     *)
(* with the in-memory store of WorkflowStorageService.ts.                  *)
(*                                                                         *)
(* One WorkflowManager drives one WorkflowState.  plan(), executeWorkflow()*)
(* and processTurn() are async methods: every action below is the code     *)
(* that runs between two suspension points (an awaited agent, action       *)
(* runner or store call), and pc is the position of the method in flight.  *)
(* currentTaskIndex and the loop index i are 0-based as in the source;     *)
(* the task at index i is tasks[i + 1].                                    *)
(***************************************************************************)
EXTENDS Integers, Sequences, FiniteSets, TLC

\* ------------------------------------------------------------------ bounds
MaxTasks == 3       \* longest task list the workflow holds
MaxTurns == 1       \* processTurn() calls over a run
MaxContentLen == 2  \* longest content string drawn character by character

\* ------------------------------------------------------- values and names
Undefined == "undefined"                 \* a JavaScript undefined / absent field
WorkflowId == "wf_1"
InitialUserInput == "build a script"
TurnInputs == {"add tests"}

PlanningAgentName == "PlanningAgent"
TaskAgentNames == {"FileAgent", "ShellAgent"}
\* the agents a host has to register (chatAction registers no ShellAgent)
RegisteredAgentNames == {PlanningAgentName, "FileAgent"}

TaskStatuses == {"pending", "running", "completed", "failed"}
TerminalTaskStatuses == {"completed", "failed"}

\* error.message of a thrown Error
ThrownMessages == {"", "exit code 1"}
\* the optional error field of a result or of an action's state
ResultErrors == {Undefined, "exit code 1"}

\* `x || fallback` on a string-or-undefined operand
OrElse(x, fallback) == IF x = Undefined \/ x = "" THEN fallback ELSE x

AgentNotFound(name) == "Agent not found: " \o name
AgentReportedFailure(name) == "Agent " \o name \o " reported failure."
AgentThrew(name) == "Agent " \o name \o " execution threw an unhandled error."
ActionRunnerFailed == "ActionRunner failed to execute action."
ActionUnexpected(st) == "Action did not complete as expected: " \o st
ParseFailed == "Failed to parse actionString from agent."
NoActionRunner(name) ==
    "Agent " \o name \o " produced an actionString but ActionRunner is not available."
TurnSaveFailed == "Failed to save state during turn processing."
TurnNoPlanner == "PlanningAgent not available for multi-turn."
TurnPlannerThrew(msg) == "PlanningAgent execution error: " \o msg
TurnPlanningFailed == "Planning for the new turn failed."

\* ------------------------------------------------------ shared context
\* faulty variant: a key the context already has keeps its value
MergeOldWins(a, b) ==
    [k \in (DOMAIN a) \cup (DOMAIN b) |-> IF k \in DOMAIN a THEN a[k] ELSE b[k]]
\* {...a, ...b}
Merge(a, b) ==
    [k \in (DOMAIN a) \cup (DOMAIN b) |-> IF k \in DOMAIN b THEN b[k] ELSE a[k]]

NoUpdates == [k \in {} |-> Undefined]
AgentContextUpdates == {NoUpdates, [k \in {"rawPlanText"} |-> "agent"]}
PlannerContextUpdates == {NoUpdates, [k \in {"rawPlanText"} |-> "plan"]}

UserMessage(text) == [role |-> "user", content |-> text]

\* ------------------------------------------------------ action directives
\* An actionString, by the attributes the translator's patterns find in it.
NoActionString ==
    [present |-> FALSE, type |-> Undefined, filePath |-> FALSE, content |-> FALSE]
Directive(t, fp, c) == [present |-> TRUE, type |-> t, filePath |-> fp, content |-> c]
\* every shape of directive
Directives ==
    { Directive(t, fp, c) :
        t \in {Undefined, "file", "shell", "deploy"}, fp \in BOOLEAN, c \in BOOLEAN }
\* the actionString field of the results the agents of this model return
ActionStrings ==
    { NoActionString, Directive("shell", FALSE, TRUE), Directive("file", FALSE, TRUE) }

NullAction == "null"
\* faulty variant: a file directive is accepted without its filePath
parseBoltActionStringAnyPath(s) ==
    IF s.type \in {"file", "shell"} /\ s.content THEN s.type ELSE NullAction
\* parseBoltActionString: the action type on success, null otherwise
parseBoltActionString(s) ==
    IF s.type = Undefined THEN NullAction
    ELSE IF s.type = "file"
         THEN (IF s.filePath /\ s.content THEN "file" ELSE NullAction)
    ELSE IF s.type = "shell"
         THEN (IF s.content THEN "shell" ELSE NullAction)
    ELSE NullAction

\* ------------------------------------------------------ agent results
\* no action has been run for the result
NoAction == [kind |-> "none", status |-> Undefined, error |-> Undefined]

AgentOutput(st, err, act, upd) ==
    [kind |-> "return", status |-> st, error |-> err,
     actionString |-> act, sharedContextUpdates |-> upd, action |-> NoAction]
Thrown(msg) ==
    [kind |-> "throw", status |-> Undefined, error |-> msg,
     actionString |-> NoActionString, sharedContextUpdates |-> NoUpdates,
     action |-> NoAction]
NoOutput ==
    [kind |-> "none", status |-> Undefined, error |-> Undefined,
     actionString |-> NoActionString, sharedContextUpdates |-> NoUpdates,
     action |-> NoAction]

\* what agent.execute(task, workflowState) can do
AgentResults ==
    { Thrown(m) : m \in ThrownMessages }
    \cup { AgentOutput("failure", m, NoActionString, NoUpdates) : m \in ResultErrors }
    \cup { AgentOutput("failure", Undefined, NoActionString, u) :
             u \in AgentContextUpdates }
    \cup { AgentOutput("success", Undefined, a, NoUpdates) : a \in ActionStrings }
    \cup { AgentOutput("success", Undefined, NoActionString, u) :
             u \in AgentContextUpdates }

\* what the action runner can do with an action: runAction throws, or the
\* action's state afterwards has this status and error
ActionOutcomes ==
    { [kind |-> "throw", status |-> Undefined, error |-> "exit code 1"] }
    \cup { [kind |-> "state", status |-> "failed", error |-> m] : m \in ResultErrors }
    \cup { [kind |-> "state", status |-> s, error |-> Undefined] :
             s \in {"complete", "aborted"} }

\* ------------------------------------------------------ tasks
NewTask(id, agentName, st) ==
    [id |-> id, agentName |-> agentName, status |-> st, error |-> Undefined,
     createdAt |-> "Date", updatedAt |-> "Date",
     startedAt |-> Undefined, completedAt |-> Undefined]

\* the agent and status of the tasks a planner emits: PlanningAgent emits
\* pending tasks, another planner may emit a task in any status
PlannedTaskShapes ==
    { <<a, "pending">> : a \in TaskAgentNames }
    \cup { <<"FileAgent", st>> : st \in TaskStatuses }

\* generateId: the j-th id that no task of `tasks` carries
FreshId(tasks, j) ==
    LET used == { tasks[k].id : k \in 1..Len(tasks) }
    IN  CHOOSE x \in 1..(Len(tasks) + j) :
            x \notin used /\ Cardinality({ y \in 1..x : y \notin used }) = j

\* how many tasks one planner call returns
PlanSizes == {0, 1, 2}

\* task lists a planner can return: n new tasks, each with a fresh id
PlannedTaskLists(tasks, n) ==
    { [k \in 1..n |-> NewTask(FreshId(tasks, k), f[k][1], f[k][2])] :
        f \in [1..n -> PlannedTaskShapes] }

VARIABLES
    workflowState,   \* WorkflowManager.workflowState
    agents,          \* WorkflowManager.agents (the registered names)
    actionRunner,    \* whether WorkflowManager.actionRunner is set
    store,           \* WorkflowStorageService.store
    pc,              \* position of the method in flight
    op,              \* the method the host called
    i,               \* executeWorkflow's loop index
    turns,           \* processTurn() calls so far
    returned,        \* how the last method call ended
    executed,        \* whether the method in flight has entered executeWorkflow()
    entry,           \* workflowState when processTurn() was called and, once the
                     \* method in flight has entered executeWorkflow(), at that entry
    invoked,         \* task ids whose agent executeWorkflow() has called, this pass
    lastResult,      \* what the last awaited agent or planner call produced
    saveFailed,      \* whether the store has rejected a save
    planningInput,   \* the input processTurn() has built for the planner, while
                     \* the planner runs
    parked,          \* a second WorkflowManager on the same workflow, suspended
    mem,             \* WorkflowState objects the callers of the store hold
    lastSaved,       \* per workflow id, the state last handed to save()
    call             \* the last call of a pure function, with its result

vars == <<workflowState, agents, actionRunner, store, pc, op, i, turns,
          returned, executed, entry, invoked, lastResult, saveFailed,
          planningInput, parked, mem, lastSaved, call>>

\* what only a planner call changes, and what only executeWorkflow() changes
registry == <<agents, actionRunner>>
loopVars == <<i, executed, entry, invoked>>
\* what the methods of one manager leave alone
aside == <<parked, mem, lastSaved, call>>

\* ------------------------------------------------------ the store
\* JSON.stringify: a Date becomes a string, an undefined field is dropped
SerializeDate(d) == IF d = "Date" THEN "string" ELSE d
SerializeTask(t) ==
    [t EXCEPT !.createdAt = SerializeDate(@), !.updatedAt = SerializeDate(@),
              !.startedAt = SerializeDate(@), !.completedAt = SerializeDate(@)]
SerializeTasks(tasks) == [k \in 1..Len(tasks) |-> SerializeTask(tasks[k])]
\* the Task objects PlanningAgent puts under plannedTaskObjects are serialized
\* like any other object
SerializeContext(c) ==
    [k \in DOMAIN c |->
        IF k = "plannedTaskObjects" THEN SerializeTasks(c[k]) ELSE c[k]]
Serialize(ws) ==
    [ws EXCEPT !.tasks = SerializeTasks(@), !.sharedContext = SerializeContext(@)]

\* load's task.x = new Date(task.x), for a field that is a non-empty string
ReviveDate(d) == IF d = "string" THEN "Date" ELSE d
DeserializeTask(t) ==
    [t EXCEPT !.createdAt = ReviveDate(@), !.updatedAt = ReviveDate(@),
              !.startedAt = ReviveDate(@), !.completedAt = ReviveDate(@)]
\* JSON.parse, then the Date fields of state.tasks
Deserialize(js) ==
    [js EXCEPT !.tasks = [k \in 1..Len(js.tasks) |-> DeserializeTask(js.tasks[k])]]

\* the workflow ids the callers of the store use
StoreIds == {WorkflowId, "wf_2"}
\* the null that load resolves to
Null == [workflowId |-> Undefined]
\* WorkflowStorageService.load: what load(id) resolves to
Loaded(id) == IF store[id] = <<>> THEN Null ELSE Deserialize(store[id][1])

\* faulty variant: save stores nothing
SavedNothing(ws, ok) == store
\* WorkflowStorageService.save: the store after save(ws.workflowId, ws),
\* which either stores the serialized state or throws and stores nothing
Saved(ws, ok) ==
    IF ok THEN [store EXCEPT ![ws.workflowId] = <<Serialize(ws)>>] ELSE store

\* ------------------------------------------------------ planner results
PlannerOutput(st, err, present, list, upd) ==
    [kind |-> "return", status |-> st, error |-> err,
     plannedTasks |-> [present |-> present, list |-> list],
     sharedContextUpdates |-> upd]
PlannerThrown(msg) ==
    [kind |-> "throw", status |-> Undefined, error |-> msg,
     plannedTasks |-> [present |-> FALSE, list |-> <<>>],
     sharedContextUpdates |-> NoUpdates]

\* what planningAgent.execute can do for a workflow holding `tasks`, when the
\* task list has room for `room` more tasks
PlannerResults(tasks, room) ==
    { PlannerThrown(m) : m \in ThrownMessages }
    \cup { PlannerOutput("failure", m, TRUE, <<>>, NoUpdates) : m \in ResultErrors }
    \cup { PlannerOutput("failure", Undefined, TRUE, <<>>, u) :
             u \in PlannerContextUpdates }
    \cup { PlannerOutput("success", Undefined, FALSE, <<>>, u) :
             u \in PlannerContextUpdates }
    \cup UNION { { PlannerOutput("success", Undefined, TRUE, l, u) :
                     l \in PlannedTaskLists(tasks, n), u \in PlannerContextUpdates } :
                 n \in PlanSizes \cap (0..room) }

\* ------------------------------------------------------ construction
\* faulty variant: the constructor marks the new workflow running
NewWorkflowStateRunning ==
    [workflowId |-> WorkflowId,
     originalUserInput |-> InitialUserInput,
     tasks |-> <<>>,
     currentTaskIndex |-> 0,
     sharedContext |->
         [k \in {"conversationHistory"} |-> <<UserMessage(InitialUserInput)>>],
     status |-> "running",
     error |-> Undefined]
\* the constructor's new workflowState (no loadedState)
NewWorkflowState ==
    [workflowId |-> WorkflowId,
     originalUserInput |-> InitialUserInput,
     tasks |-> <<>>,
     currentTaskIndex |-> 0,
     sharedContext |->
         [k \in {"conversationHistory"} |-> <<UserMessage(InitialUserInput)>>],
     status |-> "pending",
     error |-> Undefined]

\* no second manager
NoManager == [present |-> FALSE]
\* the callers of the store hold no object, and have saved nothing
NoObjects == [o \in {} |-> Null]
NothingSaved == [id \in StoreIds |-> Null]
\* no pure function has been called
NoCall == [fn |-> "none"]
\* processTurn() has built no planning input
NoPlanningInput == [present |-> FALSE]

Init ==
    /\ workflowState = NewWorkflowState
    /\ agents = {}
    /\ actionRunner \in BOOLEAN
    /\ store = [id \in StoreIds |->
                   IF id = WorkflowId THEN <<Serialize(NewWorkflowState)>> ELSE <<>>]
    /\ pc = "idle"
    /\ op = "none"
    /\ i = 0
    /\ turns = 0
    /\ returned = "none"
    /\ executed = FALSE
    /\ entry = NewWorkflowState
    /\ invoked = <<>>
    /\ lastResult = NoOutput
    /\ saveFailed = FALSE
    /\ planningInput = NoPlanningInput
    /\ parked = NoManager
    /\ mem = NoObjects
    /\ lastSaved = NothingSaved
    /\ call = NoCall

\* whether the next save can succeed / be rejected
SaveOutcomes == IF saveFailed THEN {TRUE} ELSE {TRUE, FALSE}

\* faulty variant: the state is not handed to the store
SaveSkipped(ok) ==
    /\ store' = store
    /\ saveFailed' = (saveFailed \/ ~ok)
\* this.storageService.save(workflowId, workflowState), its rejection caught
Save(ok) ==
    /\ store' = Saved(workflowState', ok)
    /\ saveFailed' = (saveFailed \/ ~ok)

\* faulty variant: a rejected save fails the workflow
SaveSettledFails(ws, ok) == IF ok THEN ws ELSE [ws EXCEPT !.status = "failed"]
\* the state in memory once `save(...).catch(err => console.error(...))` has
\* settled: the handler only logs
SaveSettled(ws, ok) == ws

\* workflowState becomes next and is saved, the rejection caught and logged
SaveState(next, ok) ==
    /\ workflowState' = SaveSettled(next, ok)
    /\ store' = Saved(next, ok)
    /\ saveFailed' = (saveFailed \/ ~ok)

\* the host calls a method of the manager
Call(method) ==
    /\ pc = "idle"
    /\ op' = method

\* the method in flight is about to resolve (or reject) its promise
Return(how) ==
    /\ pc' = "return"
    /\ returned' = how

\* the promise of the method in flight settles: control is back with the host
methodReturns ==
    /\ pc = "return"
    /\ pc' = "idle"
    /\ op' = "none"
    /\ i' = 0
    /\ executed' = FALSE
    /\ entry' = NewWorkflowState
    /\ invoked' = <<>>
    /\ lastResult' = NoOutput
    /\ UNCHANGED <<workflowState, registry, store, turns, returned,
                   saveFailed>>
    /\ UNCHANGED <<aside, planningInput>>

\* the host registers its agents before it calls plan() or processTurn()
registerAgent(name) ==
    /\ pc = "idle"
    /\ returned = "none"
    /\ name \notin agents
    /\ agents' = agents \cup {name}
    /\ UNCHANGED <<workflowState, actionRunner, store, pc, op, turns,
                   returned, loopVars, lastResult, saveFailed>>
    /\ UNCHANGED <<aside, planningInput>>

\* ------------------------------------------------------ plan()
\* The host calls plan() on the workflow it has just constructed, before any
\* other method.  status -> running and the first save
plan ==
    /\ Call("plan")
    /\ returned = "none"
    /\ \E ok \in SaveOutcomes :
         SaveState([workflowState EXCEPT !.status = "running"], ok)
    /\ pc' = "plan_saved"
    /\ UNCHANGED <<registry, loopVars, turns, returned, lastResult>>
    /\ UNCHANGED <<aside, planningInput>>

\* the planner lookup; a missing planner fails the workflow
planResolveAgent ==
    /\ pc = "plan_saved"
    /\ IF PlanningAgentName \notin agents
       THEN /\ \E ok \in SaveOutcomes :
                 SaveState([workflowState EXCEPT !.status = "failed",
                                                 !.tasks = <<>>], ok)
            /\ Return("returned")
       ELSE /\ pc' = "plan_wait"
            /\ UNCHANGED <<workflowState, store, saveFailed, returned>>
    /\ UNCHANGED <<registry, loopVars, op, turns, lastResult>>
    /\ UNCHANGED <<aside, planningInput>>

\* faulty variant: a successful result is accepted whatever its task list
PlanOutcomeAcceptsEmpty(ws, r) ==
    IF r.kind = "return" /\ r.status = "success"
    THEN [ws EXCEPT !.tasks = r.plannedTasks.list,
                    !.sharedContext = Merge(@, r.sharedContextUpdates),
                    !.status = "pending"]
    ELSE [ws EXCEPT !.status = "failed", !.tasks = <<>>]
\* the state plan() leaves once planningAgent.execute has produced r
PlanOutcome(ws, r) ==
    IF r.kind = "return" /\ r.status = "success"
       /\ r.plannedTasks.present /\ Len(r.plannedTasks.list) > 0
    THEN [ws EXCEPT !.tasks = r.plannedTasks.list,
                    !.sharedContext = Merge(@, r.sharedContextUpdates),
                    !.status = "pending"]
    ELSE [ws EXCEPT !.status = "failed", !.tasks = <<>>]

planAgentReturns ==
    /\ pc = "plan_wait"
    /\ \E r \in PlannerResults(<<>>, MaxTasks), ok \in SaveOutcomes :
         /\ lastResult' = r
         /\ SaveState(PlanOutcome(workflowState, r), ok)
    /\ Return("returned")
    /\ UNCHANGED <<registry, loopVars, op, turns>>
    /\ UNCHANGED <<aside, planningInput>>

\* ------------------------------------------------------ executeWorkflow()
\* the entry checks
\* faulty variant: the empty-list check forgets the failed status
NoTasksToExecuteAnyStatus(ws) == Len(ws.tasks) = 0
NoTasksToExecute(ws) == Len(ws.tasks) = 0 /\ ws.status # "failed"
\* faulty variant: the terminal check forgets the failed status
AlreadyTerminalCompletedOnly(ws) == ws.status = "completed"
AlreadyTerminal(ws) == ws.status = "completed" \/ ws.status = "failed"

\* the loop's skip test
\* faulty variant: the skip test forgets failed tasks
SkipTaskCompletedOnly(task) == task.status = "completed"
SkipTask(task) == task.status = "completed" \/ task.status = "failed"

\* task i: status running, startedAt kept when already set
StartTask(ws, idx) ==
    [ws EXCEPT !.tasks[idx + 1].status = "running",
               !.tasks[idx + 1].startedAt = "Date",
               !.tasks[idx + 1].updatedAt = "Date"]

\* faulty variant: the updates of the result are dropped
RecordOutputWithoutMerge(ws, idx, r) == [ws EXCEPT !.tasks[idx + 1].updatedAt = "Date"]
\* the agent has returned: updatedAt and the shared-context merge
RecordOutput(ws, idx, r) ==
    [ws EXCEPT !.tasks[idx + 1].updatedAt = "Date",
               !.sharedContext = Merge(@, r.sharedContextUpdates)]

\* faulty variant: the failure is not recorded on the task
FailTaskWithoutError(ws, idx, err) ==
    [ws EXCEPT !.tasks[idx + 1].status = "failed", !.status = "failed"]
\* faulty variant: a failed task moves the cursor past itself
FailTaskAdvancesCursor(ws, idx, err) ==
    [ws EXCEPT !.tasks[idx + 1].status = "failed",
               !.tasks[idx + 1].error = err,
               !.status = "failed",
               !.currentTaskIndex = idx + 1]
\* a failure branch that breaks out of the try block: no completedAt
FailTask(ws, idx, err) ==
    [ws EXCEPT !.tasks[idx + 1].status = "failed",
               !.tasks[idx + 1].error = err,
               !.status = "failed"]

\* faulty variant: the stamped failure leaves the task without its error
FailTaskStampedWithoutError(ws, idx, err) ==
    [ws EXCEPT !.tasks[idx + 1].status = "failed",
               !.tasks[idx + 1].completedAt = "Date",
               !.tasks[idx + 1].updatedAt = "Date",
               !.status = "failed"]
\* the failure branches that stamp completedAt (agent missing, catch)
FailTaskStamped(ws, idx, err) ==
    [FailTask(ws, idx, err) EXCEPT !.tasks[idx + 1].completedAt = "Date",
                                   !.tasks[idx + 1].updatedAt = "Date"]

\* faulty variant: the cursor is left on the completed task
CompleteTaskCursorOnTask(ws, idx) ==
    [ws EXCEPT !.tasks[idx + 1].status = "completed",
               !.tasks[idx + 1].completedAt = "Date",
               !.tasks[idx + 1].updatedAt = "Date",
               !.currentTaskIndex = idx]
\* a task that completes: stamped, and the cursor moves past it
CompleteTask(ws, idx) ==
    [ws EXCEPT !.tasks[idx + 1].status = "completed",
               !.tasks[idx + 1].completedAt = "Date",
               !.tasks[idx + 1].updatedAt = "Date",
               !.currentTaskIndex = idx + 1]

AllTasksCompleted(ws) ==
    \A k \in 1..Len(ws.tasks) : ws.tasks[k].status = "completed"
SomeTaskFailed(ws) ==
    \E k \in 1..Len(ws.tasks) : ws.tasks[k].status = "failed"

\* faulty variant: the resolution looks at the cursor and not at the tasks
FinalStatusByCursor(ws) ==
    IF ws.status = "running"
    THEN (IF ws.currentTaskIndex = Len(ws.tasks) THEN "completed" ELSE "failed")
    ELSE ws.status
\* the status resolution after the loop
FinalStatus(ws) ==
    IF ws.status # "failed" /\ ws.status # "running"
    THEN (IF AllTasksCompleted(ws) THEN "completed" ELSE "failed")
    ELSE IF ws.status = "running"
    THEN (IF AllTasksCompleted(ws) /\ ws.currentTaskIndex = Len(ws.tasks)
          THEN "completed"
          ELSE IF SomeTaskFailed(ws) THEN "failed"
          ELSE "failed")
    ELSE ws.status

\* the entry of executeWorkflow(), called by the host or by processTurn()
ExecuteEntry ==
    /\ executed' = TRUE
    /\ entry' = workflowState
    /\ invoked' = <<>>
    /\ IF NoTasksToExecute(workflowState)
       THEN /\ \E ok \in SaveOutcomes :
                 SaveState([workflowState EXCEPT !.status = "completed"], ok)
            /\ Return("returned")
            /\ UNCHANGED i
       ELSE IF AlreadyTerminal(workflowState)
       THEN /\ Return("returned")
            /\ UNCHANGED <<workflowState, store, saveFailed, i>>
       ELSE /\ \E ok \in SaveOutcomes :
                 SaveState([workflowState EXCEPT !.status = "running"], ok)
            /\ i' = workflowState.currentTaskIndex
            /\ pc' = "execute_loop"
            /\ UNCHANGED returned

executeWorkflow ==
    /\ Call("executeWorkflow")
    /\ ExecuteEntry
    /\ UNCHANGED <<registry, turns, lastResult>>
    /\ UNCHANGED <<aside, planningInput>>

\* one pass through the loop head: leave the loop, skip a finished task, or
\* start the task and look its agent up
executeLoop ==
    /\ pc = "execute_loop"
    /\ IF i >= Len(workflowState.tasks)
       THEN /\ pc' = "execute_final"
            /\ UNCHANGED <<workflowState, store, saveFailed, i, invoked, returned>>
       ELSE IF i < 0
       THEN \* tasks[i] is undefined: reading task.status throws a TypeError
            /\ Return("threw")
            /\ UNCHANGED <<workflowState, store, saveFailed, i, invoked>>
       ELSE IF SkipTask(workflowState.tasks[i + 1])
       THEN /\ i' = i + 1
            /\ UNCHANGED <<workflowState, store, saveFailed, pc, invoked, returned>>
       ELSE IF workflowState.tasks[i + 1].agentName \notin agents
       THEN /\ \E ok \in SaveOutcomes :
                 SaveState(FailTaskStamped(StartTask(workflowState, i), i,
                               AgentNotFound(workflowState.tasks[i + 1].agentName)),
                           ok)
            /\ pc' = "execute_final"
            /\ UNCHANGED <<i, invoked, returned>>
       ELSE /\ workflowState' = StartTask(workflowState, i)
            /\ invoked' = Append(invoked, workflowState.tasks[i + 1].id)
            /\ pc' = "agent_wait"
            /\ UNCHANGED <<store, saveFailed, i, returned>>
    /\ UNCHANGED <<registry, op, executed, entry, turns, lastResult>>
    /\ UNCHANGED <<aside, planningInput>>

\* the task's state once agent.execute has produced r, up to the point where
\* the action (if any) is handed to the action runner
AfterAgent(ws, idx, r, hasRunner) ==
    LET name == ws.tasks[idx + 1].agentName
        rec == RecordOutput(ws, idx, r)
    IN  IF r.kind = "throw"
        THEN FailTaskStamped(ws, idx, OrElse(r.error, AgentThrew(name)))
        ELSE IF r.status = "failure"
        THEN FailTask(rec, idx, OrElse(r.error, AgentReportedFailure(name)))
        ELSE IF r.actionString.present /\ hasRunner
        THEN (IF parseBoltActionString(r.actionString) # NullAction
              THEN rec
              ELSE FailTask(rec, idx, ParseFailed))
        ELSE IF r.actionString.present /\ ~hasRunner
        THEN FailTask(rec, idx, NoActionRunner(name))
        ELSE CompleteTask(rec, idx)

\* whether the agent's result hands an action to the action runner
RunsAction(r, hasRunner) ==
    /\ r.kind = "return"
    /\ r.status # "failure"
    /\ r.actionString.present
    /\ hasRunner
    /\ parseBoltActionString(r.actionString) # NullAction

\* where the loop goes once task idx has ended in state ws: the failure
\* branches break, a completed task is followed by the next index
\* faulty variant: a failed task does not stop the loop
LoopExitNever(ws, idx) == FALSE
\* faulty variant: a failed task stops the loop only when it is the last one
LoopExitAtEndOnly(ws, idx) ==
    /\ ws.tasks[idx + 1].status = "failed" \/ ws.status = "failed"
    /\ idx + 1 = Len(ws.tasks)
LoopExit(ws, idx) == ws.tasks[idx + 1].status = "failed" \/ ws.status = "failed"

AfterTask ==
    IF LoopExit(workflowState', i)
    THEN /\ pc' = "execute_final"
         /\ UNCHANGED i
    ELSE /\ pc' = "execute_loop"
         /\ i' = i + 1

agentReturns ==
    /\ pc = "agent_wait"
    /\ \E r \in AgentResults :
         /\ lastResult' = r
         /\ IF RunsAction(r, actionRunner)
            THEN /\ workflowState' = AfterAgent(workflowState, i, r, actionRunner)
                 /\ pc' = "action_wait"
                 /\ UNCHANGED <<store, saveFailed, i>>
            ELSE /\ \E ok \in SaveOutcomes :
                      SaveState(AfterAgent(workflowState, i, r, actionRunner), ok)
                 /\ AfterTask
    /\ UNCHANGED <<registry, op, executed, entry, invoked, turns,
                   returned>>
    /\ UNCHANGED <<aside, planningInput>>

\* faulty variant: any action state other than failed completes the task
AfterActionUnlessFailed(ws, idx, o) ==
    LET name == ws.tasks[idx + 1].agentName
    IN  IF o.kind = "throw"
        THEN FailTaskStamped(ws, idx, OrElse(o.error, AgentThrew(name)))
        ELSE IF o.status = "failed"
        THEN FailTask(ws, idx, OrElse(o.error, ActionRunnerFailed))
        ELSE CompleteTask(ws, idx)
\* the task's state once runAction has ended with outcome o
AfterAction(ws, idx, o) ==
    LET name == ws.tasks[idx + 1].agentName
    IN  IF o.kind = "throw"
        THEN FailTaskStamped(ws, idx, OrElse(o.error, AgentThrew(name)))
        ELSE IF o.status = "failed"
        THEN FailTask(ws, idx, OrElse(o.error, ActionRunnerFailed))
        ELSE IF o.status = "complete"
        THEN CompleteTask(ws, idx)
        ELSE FailTask(ws, idx, ActionUnexpected(o.status))

actionReturns ==
    /\ pc = "action_wait"
    /\ \E o \in ActionOutcomes, ok \in SaveOutcomes :
         /\ lastResult' = [lastResult EXCEPT !.action = o]
         /\ SaveState(AfterAction(workflowState, i, o), ok)
    /\ AfterTask
    /\ UNCHANGED <<registry, op, executed, entry, invoked, turns,
                   returned>>
    /\ UNCHANGED <<aside, planningInput>>

\* the final status check and save
executeFinal ==
    /\ pc = "execute_final"
    /\ \E ok \in SaveOutcomes :
         SaveState([workflowState EXCEPT !.status = FinalStatus(workflowState)], ok)
    /\ Return("returned")
    /\ UNCHANGED <<registry, loopVars, op, turns, lastResult>>
    /\ UNCHANGED <<aside, planningInput>>

\* ------------------------------------------------------ processTurn()
\* tasks.filter(t => t.status === 'completed')
CompletedTasks(tasks) == SelectSeq(tasks, LAMBDA t : t.status = "completed")
\* faulty variant: only the pending tasks are passed on
ExistingTasksPendingOnly(tasks) == SelectSeq(tasks, LAMBDA t : t.status = "pending")
\* tasks.filter(t => t.status !== 'completed')
ExistingTasks(tasks) == SelectSeq(tasks, LAMBDA t : t.status # "completed")

\* the new task list: the completed tasks, then the new plan
\* faulty variant: the splice keeps every task that has not failed
SpliceTasksKeepsUnfailed(tasks, newTasks) ==
    SelectSeq(tasks, LAMBDA t : t.status # "failed") \o newTasks
SpliceTasks(tasks, newTasks) == CompletedTasks(tasks) \o newTasks

\* tasks.findIndex(task => pending or running): 0-based, -1 when there is none
FindRunnable(tasks) ==
    LET hits == { k \in 1..Len(tasks) : tasks[k].status \in {"pending", "running"} }
    IN  IF hits = {} THEN -1
        ELSE (CHOOSE k \in hits : \A h \in hits : k <= h) - 1

\* faulty variant: the cursor goes back to the start of the list
ResetCursorToStart(tasks) == 0
\* the cursor after replanning
ResetCursor(tasks) ==
    IF FindRunnable(tasks) = -1
       /\ (\E k \in 1..Len(tasks) : tasks[k].status # "completed")
    THEN 0
    ELSE FindRunnable(tasks)

\* faulty variant: the new input replaces originalUserInput
AppendTurnReplacesInput(ws, userInput) ==
    [ws EXCEPT !.status = "processing_turn", !.originalUserInput = userInput]
\* planningTaskInput: the history and the tasks that are not completed
PlanningTaskInput(ws) ==
    [present |-> TRUE,
     conversationHistory |-> ws.sharedContext["conversationHistory"],
     existingTasks |-> ExistingTasks(ws.tasks)]

\* faulty variant: the new input starts the history afresh
AppendTurnDropsHistory(ws, userInput) ==
    [ws EXCEPT !.status = "processing_turn",
               !.sharedContext = Merge(@,
                   [k \in {"conversationHistory"} |-> <<UserMessage(userInput)>>])]
\* sharedContext.conversationHistory with the new user input appended
AppendTurn(ws, userInput) ==
    [ws EXCEPT !.status = "processing_turn",
               !.sharedContext = Merge(@,
                   [k \in {"conversationHistory"} |->
                       Append(ws.sharedContext["conversationHistory"],
                              UserMessage(userInput))])]

\* the new turn: status, history, and the first save, whose failure is fatal
processTurn ==
    /\ Call("processTurn")
    /\ turns < MaxTurns
    /\ turns' = turns + 1
    /\ entry' = workflowState
    /\ \E userInput \in TurnInputs, ok \in SaveOutcomes :
         IF ok
         THEN /\ workflowState' = AppendTurn(workflowState, userInput)
              /\ Save(TRUE)
              /\ pc' = "turn_saved"
              /\ UNCHANGED returned
         ELSE /\ workflowState' = [AppendTurn(workflowState, userInput) EXCEPT
                                     !.status = "failed", !.error = TurnSaveFailed]
              /\ \E ok2 \in BOOLEAN :
                   /\ store' = Saved(workflowState', ok2)
                   /\ saveFailed' = TRUE
              /\ Return("returned")
    /\ UNCHANGED <<registry, i, executed, invoked, lastResult>>
    /\ UNCHANGED <<aside, planningInput>>

\* the planner lookup, then status planning and its save
turnResolveAgent ==
    /\ pc = "turn_saved"
    /\ IF PlanningAgentName \notin agents
       THEN /\ workflowState' = [workflowState EXCEPT !.status = "failed",
                                                      !.error = TurnNoPlanner]
            /\ \E ok \in SaveOutcomes : Save(ok)
            /\ Return("returned")
            /\ UNCHANGED planningInput
       ELSE /\ planningInput' = PlanningTaskInput(workflowState)
            /\ workflowState' = [workflowState EXCEPT !.status = "planning"]
            /\ \E ok \in SaveOutcomes : Save(ok)
            /\ pc' = "turn_wait"
            /\ UNCHANGED returned
    /\ UNCHANGED <<registry, loopVars, op, turns, lastResult>>
    /\ UNCHANGED aside

\* whether the planner's result is fatal for the turn
TurnPlanFails(r) ==
    r.kind = "throw" \/ r.status = "failure" \/ ~r.plannedTasks.present

\* faulty variant: a failed replanning empties the task list, as plan() does
TurnOutcomeClearsTasks(ws, r) ==
    IF r.kind = "throw" \/ r.status = "failure" \/ ~r.plannedTasks.present
    THEN [ws EXCEPT !.status = "failed", !.tasks = <<>>, !.currentTaskIndex = 0,
                    !.error = OrElse(r.error, TurnPlanningFailed)]
    ELSE [ws EXCEPT !.tasks = SpliceTasks(ws.tasks, r.plannedTasks.list),
                    !.currentTaskIndex =
                        ResetCursor(SpliceTasks(ws.tasks, r.plannedTasks.list)),
                    !.sharedContext = Merge(@, r.sharedContextUpdates),
                    !.status = "pending"]
\* the state processTurn() has once planningAgent.execute has produced r
TurnOutcome(ws, r) ==
    IF r.kind = "throw"
    THEN [ws EXCEPT !.status = "failed", !.error = TurnPlannerThrew(r.error)]
    ELSE IF r.status = "failure" \/ ~r.plannedTasks.present
    THEN [ws EXCEPT !.status = "failed",
                    !.error = OrElse(r.error, TurnPlanningFailed)]
    ELSE [ws EXCEPT !.tasks = SpliceTasks(ws.tasks, r.plannedTasks.list),
                    !.currentTaskIndex =
                        ResetCursor(SpliceTasks(ws.tasks, r.plannedTasks.list)),
                    !.sharedContext = Merge(@, r.sharedContextUpdates),
                    !.status = "pending"]

turnAgentReturns ==
    /\ pc = "turn_wait"
    /\ \E r \in PlannerResults(workflowState.tasks,
                                  MaxTasks - Len(CompletedTasks(workflowState.tasks))) :
         /\ lastResult' = r
         /\ workflowState' = TurnOutcome(workflowState, r)
         /\ IF TurnPlanFails(r)
            THEN Return("returned")
            ELSE /\ pc' = "turn_execute"
                 /\ UNCHANGED returned
    /\ \E ok \in SaveOutcomes : Save(ok)
    /\ planningInput' = NoPlanningInput
    /\ UNCHANGED <<registry, loopVars, op, turns>>
    /\ UNCHANGED aside

\* processTurn() calls executeWorkflow() on the saved new plan
turnExecute ==
    /\ pc = "turn_execute"
    /\ ExecuteEntry
    /\ lastResult' = NoOutput
    /\ UNCHANGED <<registry, op, turns>>
    /\ UNCHANGED <<aside, planningInput>>

\* ------------------------------------------------------ the system
Next ==
    \/ \E name \in RegisteredAgentNames : registerAgent(name)
    \/ methodReturns
    \/ plan
    \/ planResolveAgent
    \/ planAgentReturns
    \/ executeWorkflow
    \/ executeLoop
    \/ agentReturns
    \/ actionReturns
    \/ executeFinal
    \/ processTurn
    \/ turnResolveAgent
    \/ turnAgentReturns
    \/ turnExecute

Spec == Init /\ [][Next]_vars

\* ------------------------------------------------------ chat requests
\* The chat action serves every request that names a workflowId with a
\* WorkflowManager of its own, loaded from the store, and calls processTurn()
\* on it.  Two such managers are modelled: the one whose code is running
\* (the variables of the engine) and one that is suspended (parked).  The
\* chat action passes no shell getter, so its managers have no ActionRunner.

\* a workflow an earlier request has planned and run to completion
StoredWorkflow ==
    [NewWorkflowState EXCEPT
        !.tasks = [k \in 1..(MaxTasks - 1) |->
                      [NewTask(k, "FileAgent", "completed") EXCEPT
                          !.startedAt = "Date", !.completedAt = "Date"]],
        !.currentTaskIndex = MaxTasks - 1,
        !.status = "completed"]

\* WorkflowManager.load and the registerAgent calls that follow it
LoadedManager(ws) ==
    [present |-> TRUE, workflowState |-> ws, agents |-> RegisteredAgentNames,
     actionRunner |-> FALSE, pc |-> "idle", op |-> "none", i |-> 0, turns |-> 0,
     returned |-> "none", executed |-> FALSE, entry |-> NewWorkflowState,
     invoked |-> <<>>, lastResult |-> NoOutput, planningInput |-> NoPlanningInput]

\* the manager whose code is running, as it is when it is suspended
Suspended ==
    [present |-> TRUE, workflowState |-> workflowState, agents |-> agents,
     actionRunner |-> actionRunner, pc |-> pc, op |-> op, i |-> i,
     turns |-> turns, returned |-> returned, executed |-> executed,
     entry |-> entry, invoked |-> invoked, lastResult |-> lastResult,
     planningInput |-> planningInput]

InitRequests ==
    /\ store = [id \in StoreIds |->
                   IF id = WorkflowId THEN <<Serialize(StoredWorkflow)>> ELSE <<>>]
    /\ workflowState = Loaded(WorkflowId)
    /\ agents = RegisteredAgentNames
    /\ actionRunner = FALSE
    /\ pc = "idle"
    /\ op = "none"
    /\ i = 0
    /\ turns = 0
    /\ returned = "none"
    /\ executed = FALSE
    /\ entry = NewWorkflowState
    /\ invoked = <<>>
    /\ lastResult = NoOutput
    /\ saveFailed = FALSE
    /\ planningInput = NoPlanningInput
    /\ parked = NoManager
    /\ mem = NoObjects
    /\ lastSaved = NothingSaved
    /\ call = NoCall

\* a second request names the same workflowId: its manager is loaded from
\* the store and waits for its turn to run
chatAction ==
    /\ ~parked.present
    /\ Loaded(WorkflowId) # Null
    /\ parked' = LoadedManager(Loaded(WorkflowId))
    /\ UNCHANGED <<workflowState, registry, store, pc, op, turns, returned,
                   loopVars, lastResult, saveFailed, planningInput, mem, lastSaved,
                   call>>

\* the event loop suspends the running manager at its await and resumes the
\* other one
resume ==
    /\ parked.present
    /\ parked' = Suspended
    /\ workflowState' = parked.workflowState
    /\ agents' = parked.agents
    /\ actionRunner' = parked.actionRunner
    /\ pc' = parked.pc
    /\ op' = parked.op
    /\ i' = parked.i
    /\ turns' = parked.turns
    /\ returned' = parked.returned
    /\ executed' = parked.executed
    /\ entry' = parked.entry
    /\ invoked' = parked.invoked
    /\ lastResult' = parked.lastResult
    /\ planningInput' = parked.planningInput
    /\ UNCHANGED <<store, saveFailed, mem, lastSaved, call>>

NextRequests ==
    \/ chatAction
    \/ resume
    \/ methodReturns
    \/ processTurn
    \/ turnResolveAgent
    \/ turnAgentReturns
    \/ turnExecute
    \/ executeLoop
    \/ agentReturns
    \/ executeFinal

SpecRequests == InitRequests /\ [][NextRequests]_vars

\* ------------------------------------------------------ callers of the store
\* The store as its callers see it: WorkflowState objects held in memory,
\* saved under their workflowId, loaded and deleted by id.  The bodies of
\* save, load and delete run without suspending, so each is one step.

\* the variables of the callers that hold a WorkflowState object
Holders == {"a", "b"}

\* what PlanningAgent.execute returns for a plan of these tasks: the raw
\* text, and the planned Task objects themselves, as context updates
PlanningAgentOutput(list) ==
    PlannerOutput("success", Undefined, TRUE, list,
        [k \in {"rawPlanText", "plannedTaskObjects"} |->
            IF k = "rawPlanText" THEN "plan" ELSE list])

\* states the engine produces for workflow id: new, planned by PlanningAgent,
\* planned by a planner that publishes nothing, and that plan running,
\* completed and failed
EngineStates(id) ==
    LET new == [NewWorkflowState EXCEPT !.workflowId = id]
        tasks == <<NewTask(1, "FileAgent", "pending")>>
        planning == [new EXCEPT !.status = "running"]
        planned == PlanOutcome(planning, PlanningAgentOutput(tasks))
        bare == PlanOutcome(planning,
                    PlannerOutput("success", Undefined, TRUE, tasks, NoUpdates))
        running == StartTask([bare EXCEPT !.status = "running"], 0)
        done == CompleteTask(running, 0)
        failed == FailTask(running, 0, AgentReportedFailure("FileAgent"))
    IN  { new, planned, bare, running,
          [done EXCEPT !.status = FinalStatus(done)], failed }

\* WorkflowStorageService.delete: the store after delete(id)
\* faulty variant: delete clears the whole store
DeletedAll(id) == [k \in StoreIds |-> <<>>]
\* faulty variant: delete removes nothing
DeletedNothing(id) == store
Deleted(id) == [store EXCEPT ![id] = <<>>]

\* the variables of the engine, which the callers of the store leave alone
engineVars == <<workflowState, agents, actionRunner, pc, op, i, turns, returned,
                executed, entry, invoked, lastResult, saveFailed, planningInput,
                parked>>

\* no manager is at work
EngineAtRest ==
    /\ workflowState = NewWorkflowState
    /\ agents = {}
    /\ actionRunner = FALSE
    /\ pc = "idle"
    /\ op = "none"
    /\ i = 0
    /\ turns = 0
    /\ returned = "none"
    /\ executed = FALSE
    /\ entry = NewWorkflowState
    /\ invoked = <<>>
    /\ lastResult = NoOutput
    /\ saveFailed = FALSE
    /\ planningInput = NoPlanningInput
    /\ parked = NoManager

InitStore ==
    /\ EngineAtRest
    /\ store = [id \in StoreIds |-> <<>>]
    /\ mem = [o \in Holders |-> Null]
    /\ lastSaved = NothingSaved
    /\ call = NoCall

\* a caller constructs a workflow, or the engine changes the one it holds
mutate(o) ==
    /\ \E id \in StoreIds :
         /\ mem[o] = Null \/ mem[o].workflowId = id
         /\ \E ws \in EngineStates(id) : mem' = [mem EXCEPT ![o] = ws]
    /\ call' = [fn |-> "mutate", holder |-> o]
    /\ UNCHANGED <<engineVars, store, lastSaved>>

\* storageService.save(state.workflowId, state)
save(o) ==
    /\ mem[o] # Null
    /\ store' = Saved(mem[o], TRUE)
    /\ lastSaved' = [lastSaved EXCEPT ![mem[o].workflowId] = mem[o]]
    /\ call' = [fn |-> "save", id |-> mem[o].workflowId, holder |-> o]
    /\ UNCHANGED <<engineVars, mem>>

\* state = await storageService.load(id)
load(id, o) ==
    /\ mem' = [mem EXCEPT ![o] = Loaded(id)]
    /\ call' = [fn |-> "load", id |-> id, holder |-> o]
    /\ UNCHANGED <<engineVars, store, lastSaved>>

\* storageService.delete(id)
delete(id) ==
    /\ store' = Deleted(id)
    /\ lastSaved' = [lastSaved EXCEPT ![id] = Null]
    /\ call' = [fn |-> "delete", id |-> id]
    /\ UNCHANGED <<engineVars, mem>>

NextStore ==
    \/ \E o \in Holders : mutate(o)
    \/ \E o \in Holders : save(o)
    \/ \E id \in StoreIds, o \in Holders : load(id, o)
    \/ \E id \in StoreIds : delete(id)

SpecStore == InitStore /\ [][NextStore]_vars

\* ------------------------------------------------------ directive text
\* An actionString as text: a sequence of characters.  The agents build it
\* with escapeXml, and parseBoltActionString takes it apart with three
\* patterns and unescapes the content.
Quote == "\""
TypeOpener ==
    <<"t", "y", "p", "e", "=", "\"">>
FilePathOpener ==
    <<"f", "i", "l", "e", "P", "a", "t", "h", "=", "\"">>
ContentOpener ==
    <<"c", "o", "n", "t", "e", "n", "t", "=", "\"">>
TagOpen ==
    <<"<", "b", "o", "l", "t", "A", "c", "t", "i", "o", "n">>
TagClose ==
    <<">", "<", "/", "b", "o", "l", "t", "A", "c", "t", "i", "o", "n", ">">>
SamplePath ==
    <<"a", ".", "t", "x", "t">>

\* the replacement escapeXml's switch gives for a character
Entity(c) ==
    IF c = "<" THEN <<"&", "l", "t", ";">>
    ELSE IF c = ">" THEN <<"&", "g", "t", ";">>
    ELSE IF c = "&" THEN <<"&", "a", "m", "p", ";">>
    ELSE IF c = Quote THEN <<"&", "q", "u", "o", "t", ";">>
    ELSE IF c = "'" THEN <<"&", "a", "p", "o", "s", ";">>
    ELSE <<c>>

RECURSIVE escapeXml(_)
\* str.replace(/[<>&"']/g, ...)
escapeXml(str) ==
    IF str = <<>> THEN <<>> ELSE Entity(Head(str)) \o escapeXml(Tail(str))

\* whether pattern occurs in str at position k
StartsAt(str, pattern, k) ==
    /\ k + Len(pattern) - 1 <= Len(str)
    /\ SubSeq(str, k, k + Len(pattern) - 1) = pattern

RECURSIVE ReplaceFrom(_, _, _, _)
ReplaceFrom(str, pattern, by, k) ==
    IF k > Len(str) THEN <<>>
    ELSE IF StartsAt(str, pattern, k)
    THEN by \o ReplaceFrom(str, pattern, by, k + Len(pattern))
    ELSE <<str[k]>> \o ReplaceFrom(str, pattern, by, k + 1)
\* str.replace(/pattern/g, by): every occurrence, left to right
replace(str, pattern, by) == ReplaceFrom(str, pattern, by, 1)

\* the chain of replacements, in the order the code applies them
unescapedContent(str) ==
    replace(replace(replace(replace(replace(str,
        Entity("<"), <<"<">>), Entity(">"), <<">">>), Entity("&"), <<"&">>),
        Entity(Quote), <<Quote>>), Entity("'"), <<"'">>)

Least(S) == CHOOSE k \in S : \A h \in S : k <= h
NoMatch == [matched |-> FALSE, group |-> <<>>]

\* /name="([^"]+)"/ tried at position k: the position of the closing quote,
\* 0 when the pattern does not match there
AttrMatchAt(str, opener, k) ==
    LET from == k + Len(opener)
        quotes == { q \in from..Len(str) : str[q] = Quote }
    IN  IF ~StartsAt(str, opener, k) \/ quotes = {} \/ from \in quotes
        THEN 0
        ELSE Least(quotes)
\* str.match(/name="([^"]+)"/): the leftmost match
AttrMatch(str, opener) ==
    LET hits == { k \in 1..Len(str) : AttrMatchAt(str, opener, k) # 0 }
    IN  IF hits = {} THEN NoMatch
        ELSE [matched |-> TRUE,
              group |-> SubSeq(str, Least(hits) + Len(opener),
                               AttrMatchAt(str, opener, Least(hits)) - 1)]

\* /content="((?:.|\r|\n)*?)"(?:\s|>|$)/ tried at position k: the position
\* of the first quote that a space, a `>` or the end follows, 0 when none
ContentMatchAt(str, k) ==
    LET from == k + Len(ContentOpener)
        quotes == { q \in from..Len(str) :
                      /\ str[q] = Quote
                      /\ (q = Len(str) \/ str[q + 1] \in {" ", ">"}) }
    IN  IF ~StartsAt(str, ContentOpener, k) \/ quotes = {} THEN 0
        ELSE Least(quotes)
contentMatch(str) ==
    LET hits == { k \in 1..Len(str) : ContentMatchAt(str, k) # 0 }
    IN  IF hits = {} THEN NoMatch
        ELSE [matched |-> TRUE,
              group |-> SubSeq(str, Least(hits) + Len(ContentOpener),
                               ContentMatchAt(str, Least(hits)) - 1)]

typeMatch(str) == AttrMatch(str, TypeOpener)
filePathMatch(str) == AttrMatch(str, FilePathOpener)

\* the action types a directive names
FileType == <<"f", "i", "l", "e">>
ShellType == <<"s", "h", "e", "l", "l">>
DeployType == <<"d", "e", "p", "l", "o", "y">>
actionType(str) ==
    IF ~typeMatch(str).matched THEN Undefined
    ELSE IF typeMatch(str).group = FileType THEN "file"
    ELSE IF typeMatch(str).group = ShellType THEN "shell"
    ELSE "deploy"

\* the directive, by what the three patterns find in its text
Found(str) ==
    Directive(actionType(str), filePathMatch(str).matched, contentMatch(str).matched)

\* parseBoltActionString on the text: null, or the action with its content
Translated(str) ==
    IF parseBoltActionString(Found(str)) = NullAction
    THEN [type |-> NullAction, content |-> <<>>]
    ELSE [type |-> parseBoltActionString(Found(str)),
          content |-> unescapedContent(contentMatch(str).group)]

\* the text of a directive with these attributes
Attr(opener, value) == <<" ">> \o opener \o value \o <<Quote>>
DirectiveText(t, hasFilePath, filePath, hasContent, content) ==
    TagOpen
    \o (IF t = Undefined THEN <<>> ELSE Attr(TypeOpener, t))
    \o (IF hasFilePath THEN Attr(FilePathOpener, filePath) ELSE <<>>)
    \o (IF hasContent THEN Attr(ContentOpener, content) ELSE <<>>)
    \o TagClose

\* FileAgent's directive for a create: the content entity-escaped
FileDirective(filePath, content) ==
    DirectiveText(FileType, TRUE, filePath, TRUE, escapeXml(content))

\* ------------------------------------------------------ the pure functions
\* The translator and the context merge, applied to inputs drawn from
\* bounded sets; call holds the last call and its result.

\* the characters content is drawn from, and text that reads like an entity
ContentChars == {"a", "<", "&", Quote}
EntityTexts ==
    { Entity(Quote), Entity("'"), Entity("<"), Entity("&"),
      <<"&", "a", "m", "p", ";", "l", "t", ";">> }
Contents ==
    UNION { [1..n -> ContentChars] : n \in 0..MaxContentLen } \cup EntityTexts

InitFunctions ==
    /\ EngineAtRest
    /\ store = [id \in StoreIds |-> <<>>]
    /\ mem = NoObjects
    /\ lastSaved = NothingSaved
    /\ call = NoCall

\* FileAgent emits a create directive for content, the engine translates it
translateFile ==
    /\ \E content \in Contents :
         call' = [fn |-> "translateFile", input |-> content,
                  output |-> Translated(FileDirective(SamplePath, content))]
    /\ UNCHANGED <<engineVars, store, mem, lastSaved>>

\* the types a directive carries in its text: none, file, shell, another
DirectiveTypes ==
    { [name |-> Undefined, text |-> <<>>], [name |-> "file", text |-> FileType],
      [name |-> "shell", text |-> ShellType],
      [name |-> "deploy", text |-> DeployType] }

\* a workflow whose only task is running, its agent about to return
RunningTask ==
    StartTask([NewWorkflowState EXCEPT
                  !.tasks = <<NewTask(1, "FileAgent", "pending")>>,
                  !.status = "running"], 0)

\* an agent returns success with a directive of this shape; the engine, with
\* or without an ActionRunner, translates it and settles the task
translate ==
    /\ \E ty \in DirectiveTypes, hasFilePath \in BOOLEAN, hasContent \in BOOLEAN,
          hasRunner \in BOOLEAN :
         LET text == DirectiveText(IF ty.name = Undefined THEN Undefined ELSE ty.text,
                                   hasFilePath, SamplePath,
                                   hasContent, escapeXml(<<"a">>))
             r == AgentOutput("success", Undefined, Found(text), NoUpdates)
         IN  call' = [fn |-> "translate",
                      input |-> [type |-> ty.name, filePath |-> hasFilePath,
                                 content |-> hasContent],
                      hasRunner |-> hasRunner,
                      output |-> Translated(text),
                      task |-> AfterAgent(RunningTask, 0, r, hasRunner).tasks[1]]
    /\ UNCHANGED <<engineVars, store, mem, lastSaved>>

\* a key of a context: absent, or present with one of these values
Entry(values) ==
    { [present |-> FALSE, value |-> v] : v \in {CHOOSE x \in values : TRUE} }
    \cup { [present |-> TRUE, value |-> v] : v \in values }
\* the context that holds these entries
Context(history, planText, files) ==
    [k \in { key \in {"conversationHistory", "rawPlanText", "files"} :
                \/ (key = "conversationHistory" /\ history.present)
                \/ (key = "rawPlanText" /\ planText.present)
                \/ (key = "files" /\ files.present) } |->
        IF k = "conversationHistory" THEN history.value
        ELSE IF k = "rawPlanText" THEN planText.value
        ELSE files.value]
\* update objects: a history, a plan text and a nested object, each present
\* or not
ContextObjects ==
    { Context(h, p, f) :
        h \in Entry({ <<UserMessage(InitialUserInput)>>,
                      <<UserMessage(InitialUserInput), UserMessage("add tests")>> }),
        p \in Entry({"plan", "agent"}),
        f \in Entry({ [a |-> "x"], [a |-> "y", b |-> "z"] }) }
\* a sharedContext always holds the conversation history
SharedContexts == { c \in ContextObjects : "conversationHistory" \in DOMAIN c }

\* a task's agent, and the planner of a turn, return these updates to an
\* engine whose sharedContext is this context
merge ==
    /\ \E context \in SharedContexts, updates \in ContextObjects :
         LET ws == [RunningTask EXCEPT !.sharedContext = context]
             r == AgentOutput("success", Undefined, NoActionString, updates)
             planned == PlannerOutput("success", Undefined, TRUE, <<>>, updates)
         IN  call' = [fn |-> "merge", context |-> context, updates |-> updates,
                      output |-> RecordOutput(ws, 0, r).sharedContext,
                      turnOutput |-> TurnOutcome(ws, planned).sharedContext]
    /\ UNCHANGED <<engineVars, store, mem, lastSaved>>

\* processTurn() receives this input on an engine whose sharedContext is this
\* context
appendTurn ==
    /\ \E context \in SharedContexts, userInput \in TurnInputs :
         LET ws == [RunningTask EXCEPT !.sharedContext = context]
         IN  call' = [fn |-> "appendTurn", context |-> context, input |-> userInput,
                      output |-> AppendTurn(ws, userInput).sharedContext]
    /\ UNCHANGED <<engineVars, store, mem, lastSaved>>

NextFunctions ==
    \/ translateFile
    \/ translate
    \/ merge
    \/ appendTurn

SpecFunctions == InitFunctions /\ [][NextFunctions]_vars

\* ------------------------------------------------------ one execution pass
\* executeWorkflow() on a plan whose tasks carry the optional dependencies
\* field of types.ts: no dependency, or a dependency on the last task of the
\* plan (for the last task, on itself).

\* Task.dependencies: the ids of the tasks that must complete before this one
TaskWithDependencies(task, dependencies) ==
    [f \in DOMAIN task \cup {"dependencies"} |->
        IF f = "dependencies" THEN dependencies ELSE task[f]]

\* plans of pending tasks, task k carrying id k
DependentPlans ==
    UNION { { [k \in 1..n |->
                 TaskWithDependencies(NewTask(k, f[k][1], "pending"), f[k][2])] :
              f \in [1..n -> TaskAgentNames \X {<<>>, <<n>>}] } :
            n \in 1..MaxTasks }

\* plan() has returned with such a plan, and the state is stored
InitPass ==
    /\ workflowState \in { [NewWorkflowState EXCEPT !.tasks = l] : l \in DependentPlans }
    /\ agents = RegisteredAgentNames
    /\ actionRunner \in BOOLEAN
    /\ store = [id \in StoreIds |->
                   IF id = WorkflowId THEN <<Serialize(workflowState)>> ELSE <<>>]
    /\ pc = "idle"
    /\ op = "none"
    /\ i = 0
    /\ turns = 0
    /\ returned = "returned"
    /\ executed = FALSE
    /\ entry = NewWorkflowState
    /\ invoked = <<>>
    /\ lastResult = NoOutput
    /\ saveFailed = FALSE
    /\ planningInput = NoPlanningInput
    /\ parked = NoManager
    /\ mem = NoObjects
    /\ lastSaved = NothingSaved
    /\ call = NoCall

NextPass ==
    \/ executeWorkflow
    \/ executeLoop
    \/ agentReturns
    \/ actionReturns
    \/ executeFinal
    \/ methodReturns

SpecPass == InitPass /\ [][NextPass]_vars

\* ------------------------------------------------------ the chat action's agents
\* The manager the chat action builds: PlanningAgent, FileAgent and CodeAgent
\* registered, no shell getter and therefore no ActionRunner, and the tasks
\* PlanningAgent plans, whose input holds the action text and the request.

\* faulty variant: FileAgent succeeds on an input without filePath
FileAgentExecuteWithoutPath(input) ==
    AgentOutput("success", Undefined, NoActionString, NoUpdates)
\* FileAgent.execute, by the fields of task.input
FileAgentExecute(input) ==
    IF ~("filePath" \in DOMAIN input /\ input.filePath # "")
    THEN AgentOutput("failure", "Missing filePath for FileAgent", NoActionString, NoUpdates)
    ELSE LET operation == IF "operation" \in DOMAIN input THEN input.operation
                          ELSE "create"
         IN  IF operation \in {"create", "append"}
             THEN (IF "content" \in DOMAIN input
                   THEN AgentOutput("success", Undefined,
                                    Directive("file", TRUE, TRUE), NoUpdates)
                   ELSE AgentOutput("failure",
                                    "Missing content for FileAgent create/append operation",
                                    NoActionString, NoUpdates))
             ELSE IF operation = "delete"
             THEN AgentOutput("success", Undefined,
                              Directive("shell", FALSE, TRUE), NoUpdates)
             ELSE AgentOutput("failure", "Unknown operation for FileAgent",
                              NoActionString, NoUpdates)

\* CodeAgent.execute, by the fields of task.input
CodeAgentExecute(input) ==
    IF ~("filePath" \in DOMAIN input /\ input.filePath # "")
    THEN AgentOutput("failure", "Missing filePath for CodeAgent", NoActionString, NoUpdates)
    ELSE IF "codeContent" \in DOMAIN input \/ "codeDescription" \in DOMAIN input
    THEN AgentOutput("success", Undefined, Directive("file", TRUE, TRUE), NoUpdates)
    ELSE AgentOutput("failure",
                     "Missing filePath and (codeContent or codeDescription) for CodeAgent",
                     NoActionString, NoUpdates)

\* the task PlanningAgent makes of a plan line: pending, no dependencies, and
\* an input with the action text and the request that produced it
PlannedTask(id, agentName, request) ==
    LET task == TaskWithDependencies(NewTask(id, agentName, "pending"), <<>>)
    IN  [f \in DOMAIN task \cup {"input"} |->
            IF f = "input" THEN [action |-> "a", latestUserRequest |-> request]
            ELSE task[f]]

\* the chat action has planned: a new workflow after plan(), or a loaded one
\* after processTurn()'s replanning kept a completed PlanningAgent task of the
\* first request. The plan's agent names are those the plan text can carry.
InitChat ==
    /\ \E kept \in {0, 1}, n \in 1..MaxTasks :
         /\ kept + n <= MaxTasks
         /\ \E names \in [1..n -> {PlanningAgentName, "FileAgent", "CodeAgent", "ShellAgent"}] :
              LET request == IF kept = 0 THEN InitialUserInput ELSE "add tests"
                  done == [PlannedTask(1, PlanningAgentName, InitialUserInput)
                              EXCEPT !.status = "completed", !.startedAt = "Date",
                                     !.completedAt = "Date"]
                  planned == [k \in 1..n |-> PlannedTask(kept + k, names[k], request)]
                  history == IF kept = 0 THEN <<UserMessage(InitialUserInput)>>
                             ELSE <<UserMessage(InitialUserInput), UserMessage(request)>>
              IN  workflowState =
                      [NewWorkflowState EXCEPT
                          !.tasks = (IF kept = 0 THEN <<>> ELSE <<done>>) \o planned,
                          !.currentTaskIndex = kept,
                          !.sharedContext =
                              Merge([k \in {"conversationHistory"} |-> history],
                                    [k \in {"rawPlanText"} |-> "plan"])]
    /\ agents = {PlanningAgentName, "FileAgent", "CodeAgent"}
    /\ actionRunner = FALSE
    /\ store = [id \in StoreIds |->
                   IF id = WorkflowId THEN <<Serialize(workflowState)>> ELSE <<>>]
    /\ pc = "idle"
    /\ op = "none"
    /\ i = 0
    /\ turns = 0
    /\ returned = "returned"
    /\ executed = FALSE
    /\ entry = NewWorkflowState
    /\ invoked = <<>>
    /\ lastResult = NoOutput
    /\ saveFailed = FALSE
    /\ planningInput = NoPlanningInput
    /\ parked = NoManager
    /\ mem = NoObjects
    /\ lastSaved = NothingSaved
    /\ call = NoCall

\* agent.execute of the running task has ended: FileAgent and CodeAgent act
\* on task.input, PlanningAgent plans again and returns no action
chatAgentReturns ==
    /\ pc = "agent_wait"
    /\ LET task == workflowState.tasks[i + 1]
           results ==
               IF task.agentName = "FileAgent" THEN {FileAgentExecute(task.input)}
               ELSE IF task.agentName = "CodeAgent" THEN {CodeAgentExecute(task.input)}
               ELSE { AgentOutput("success", Undefined, NoActionString,
                                  [k \in {"rawPlanText"} |-> "plan"]),
                      AgentOutput("failure", "LLM model not available",
                                  NoActionString, NoUpdates) }
       IN  \E r \in results :
             /\ lastResult' = r
             /\ IF RunsAction(r, actionRunner)
                THEN /\ workflowState' = AfterAgent(workflowState, i, r, actionRunner)
                     /\ pc' = "action_wait"
                     /\ UNCHANGED <<store, saveFailed, i>>
                ELSE /\ \E ok \in SaveOutcomes :
                          SaveState(AfterAgent(workflowState, i, r, actionRunner), ok)
                     /\ AfterTask
    /\ UNCHANGED <<registry, op, executed, entry, invoked, turns,
                   returned>>
    /\ UNCHANGED <<aside, planningInput>>

NextChat ==
    \/ executeWorkflow
    \/ executeLoop
    \/ chatAgentReturns
    \/ executeFinal
    \/ methodReturns

SpecChat == InitChat /\ [][NextChat]_vars

\* ====================================================== properties
\* the host has called executeWorkflow() and it is about to return
ExecuteReturns == pc = "return" /\ op = "executeWorkflow" /\ returned = "returned"

\* a workflow or task status from which nothing runs
IsTerminal(st) == st \in {"completed", "failed"}

\* the statuses of the tasks, by position
StatusesOf(tasks) == [k \in 1..Len(tasks) |-> tasks[k].status]

\* this step calls some task's agent
InvokesAgent == invoked' # invoked /\ invoked' # <<>>

\* the position (1-based) of the task the running pass invoked last
LastInvoked ==
    CHOOSE k \in 1..Len(workflowState.tasks) :
        workflowState.tasks[k].id = invoked[Len(invoked)]

\* the agent of the task invoked last has thrown or returned a failure result
AgentFailed ==
    /\ executed
    /\ invoked # <<>>
    /\ \/ lastResult.kind = "throw"
       \/ lastResult.kind = "return" /\ lastResult.status = "failure"

\* the loop has stopped at the task invoked last: the workflow is failed, the
\* tasks after it are as they were at entry and none of them was invoked
StoppedAtLastInvoked ==
    /\ pc \in {"execute_final", "return"}
    /\ workflowState.status = "failed"
    /\ \A k \in (LastInvoked + 1)..Len(workflowState.tasks) :
         workflowState.tasks[k] = entry.tasks[k]

\* ------------------------------------------------------ C1
\* C1: in every reachable state the cursor is a valid index into the task
\* list or equal to its length: 0 <= currentTaskIndex <= tasks.length.
C1_CursorInRange ==
    /\ 0 <= workflowState.currentTaskIndex
    /\ workflowState.currentTaskIndex <= Len(workflowState.tasks)

\* ------------------------------------------------------ C2
\* C2: while the workflow status is completed or failed, a call of
\* executeWorkflow() returns at once, and no step outside plan() and
\* processTurn() invokes an agent, changes a task's status, moves the cursor
\* or changes the workflow status.
C2_TerminalIsNoOp ==
    [][ /\ (pc = "idle" /\ op' = "executeWorkflow" /\ IsTerminal(workflowState.status))
            => (pc' = "return" /\ returned' = "returned")
        /\ (IsTerminal(workflowState.status) /\ op' \notin {"plan", "processTurn"})
            => /\ ~InvokesAgent
               /\ StatusesOf(workflowState'.tasks) = StatusesOf(workflowState.tasks)
               /\ workflowState'.currentTaskIndex = workflowState.currentTaskIndex
               /\ workflowState'.status = workflowState.status ]_vars

\* executeWorkflow() has been called on a failed workflow that still holds a
\* pending task, and on a completed one
C2_Witness ==
    /\ ExecuteReturns
    /\ entry.status = "failed"
    /\ \E k \in 1..Len(entry.tasks) : entry.tasks[k].status = "pending"

\* ------------------------------------------------------ C3
\* C3 as claimed: once the agent of a task throws or returns a failure result,
\* the task is failed with its error equal to the thrown or returned message,
\* the workflow is failed, and every later task is untouched and not invoked.
C3_ErrorIsMessage ==
    AgentFailed =>
        /\ workflowState.tasks[LastInvoked].status = "failed"
        /\ workflowState.tasks[LastInvoked].error = lastResult.error
        /\ StoppedAtLastInvoked

\* C3 as amended: the task's error is the thrown or returned message when
\* that message is a non-empty string, and otherwise the engine's default text
\* for a throwing or a failing agent; the rest as claimed.
C3_ErrorIsMessageOrDefault ==
    AgentFailed =>
        LET task == workflowState.tasks[LastInvoked]
            default == IF lastResult.kind = "throw"
                       THEN AgentThrew(task.agentName)
                       ELSE AgentReportedFailure(task.agentName)
        IN  /\ task.status = "failed"
            /\ task.error = IF lastResult.error \in {Undefined, ""}
                            THEN default ELSE lastResult.error
            /\ StoppedAtLastInvoked

\* an agent has thrown "exit code 1" on a task that a pending task follows
C3_Witness ==
    /\ AgentFailed
    /\ pc = "return"
    /\ lastResult.kind = "throw" /\ lastResult.error = "exit code 1"
    /\ LastInvoked < Len(workflowState.tasks)
    /\ workflowState.tasks[LastInvoked + 1].status = "pending"

\* ------------------------------------------------------ C4
\* C4: a pass of executeWorkflow() that resumes a workflow (cursor past the
\* first task, workflow status not terminal) never invokes the agent of a
\* task that was completed or failed when the pass began, and never changes
\* such a task.
C4_ResumeSkipsFinished ==
    (executed /\ entry.currentTaskIndex > 0 /\ ~IsTerminal(entry.status)) =>
        \A k \in 1..Len(entry.tasks) :
            IsTerminal(entry.tasks[k].status) =>
                /\ workflowState.tasks[k] = entry.tasks[k]
                /\ \A j \in 1..Len(invoked) : invoked[j] # entry.tasks[k].id

\* a resumed pass has run a task and gone past a failed task behind it
C4_Witness ==
    /\ executed /\ pc = "return"
    /\ entry.currentTaskIndex > 0 /\ ~IsTerminal(entry.status)
    /\ invoked # <<>>
    /\ \E k \in 1..Len(entry.tasks) :
         /\ k > entry.currentTaskIndex + 1
         /\ entry.tasks[k].status = "failed"
    /\ \E k \in 1..Len(entry.tasks) :
         /\ k <= entry.currentTaskIndex
         /\ entry.tasks[k].status = "completed"

\* ------------------------------------------------------ C5
\* C5: when executeWorkflow() returns and the task it attempted last, at
\* index i, has ended failed, currentTaskIndex equals i + 1.
C5_CursorPastFailedTask ==
    (pc = "return" /\ returned = "returned" /\ executed /\ invoked # <<>>
     /\ workflowState.tasks[LastInvoked].status = "failed") =>
        workflowState.currentTaskIndex = (LastInvoked - 1) + 1

\* ------------------------------------------------------ C6
\* C6 as claimed: executeWorkflow() entered with an empty task list leaves
\* the workflow completed and invokes no agent.
C6_EmptyIsCompleted ==
    (pc = "return" /\ executed /\ Len(entry.tasks) = 0) =>
        /\ workflowState.status = "completed"
        /\ invoked = <<>>

\* C6 as amended: executeWorkflow() entered with an empty task list invokes
\* no agent and leaves the workflow completed, unless the workflow was
\* already failed, and then it stays failed.
C6_EmptyIsCompletedUnlessFailed ==
    (pc = "return" /\ executed /\ Len(entry.tasks) = 0) =>
        /\ workflowState.status =
               IF entry.status = "failed" THEN "failed" ELSE "completed"
        /\ workflowState.tasks = <<>>
        /\ invoked = <<>>

\* both cases: an empty pending workflow, and an empty failed one
C6_Witness ==
    /\ pc = "return" /\ executed /\ Len(entry.tasks) = 0
    /\ entry.status = "failed"
    /\ workflowState.status = "failed"

\* ------------------------------------------------------ C7
\* executeWorkflow() has run its loop over tasks that were pending or
\* completed at entry and has returned, and no pending task has failed: every
\* agent was registered and succeeded, and every action was translated and
\* reported complete
PassWithoutFailure ==
    /\ pc = "return" /\ returned = "returned" /\ executed
    /\ ~IsTerminal(entry.status)
    /\ \E k \in 1..Len(entry.tasks) : entry.tasks[k].status = "pending"
    /\ \A k \in 1..Len(entry.tasks) :
         /\ entry.tasks[k].status \in {"pending", "completed"}
         /\ workflowState.tasks[k].status # "failed"

\* C7: when every pending task's agent is registered and succeeds and every
\* action is translated and reported complete, executeWorkflow() ends with
\* the workflow completed, every task completed and the cursor at tasks.length.
C7_AllSucceedCompletes ==
    PassWithoutFailure =>
        /\ workflowState.status = "completed"
        /\ \A k \in 1..Len(workflowState.tasks) :
             workflowState.tasks[k].status = "completed"
        /\ workflowState.currentTaskIndex = Len(workflowState.tasks)

\* ------------------------------------------------------ C8
\* C8: after a successful replanning the task list is the previously
\* completed tasks, unchanged and in their previous order, followed by the
\* planner's new tasks in the planner's order; no previously non-completed
\* task is in the list.
C8_SpliceKeepsCompleted ==
    pc = "turn_execute" =>
        LET old == entry.tasks
            new == lastResult.plannedTasks.list
            kept == SelectSeq(old, LAMBDA t : t.status = "completed")
        IN  /\ workflowState.tasks = kept \o new
            /\ \A k \in 1..Len(old) :
                 old[k].status # "completed" =>
                     \A j \in 1..Len(workflowState.tasks) :
                         workflowState.tasks[j].id # old[k].id

\* a replanning that kept a completed task, dropped the failed task behind
\* it, and added two new tasks
C8_Witness ==
    /\ pc = "turn_execute"
    /\ Len(lastResult.plannedTasks.list) = 2
    /\ Len(entry.tasks) = 2
    /\ entry.tasks[1].status = "completed"
    /\ entry.tasks[2].status = "failed"

\* ------------------------------------------------------ C9
\* what an observer of statuses sees of a workflow state
StatusView(ws) == <<ws.status, [k \in 1..Len(ws.tasks) |-> <<ws.tasks[k].id, ws.tasks[k].status>>]>>
\* the state the store holds
StoredState == store[WorkflowId][1]

\* C9 as claimed, for the runs in which the store has accepted every save:
\* when a step changes the workflow's status or a task's status, the statuses
\* before the step are the ones the store holds, so that every transition, a
\* task's pending -> running step included, has been saved before the next.
C9_EveryTransitionSaved ==
    [][ (StatusView(workflowState') # StatusView(workflowState) /\ ~saveFailed')
          => StatusView(StoredState) = StatusView(workflowState) ]_vars

\* this step does nothing to the statuses but set tasks running
OnlyStartsTasks ==
    /\ workflowState'.status = workflowState.status
    /\ Len(workflowState'.tasks) = Len(workflowState.tasks)
    /\ \A k \in 1..Len(workflowState.tasks) :
         /\ workflowState'.tasks[k].id = workflowState.tasks[k].id
         /\ \/ workflowState'.tasks[k].status = workflowState.tasks[k].status
            \/ workflowState'.tasks[k].status = "running"

\* C9 as amended: every step that changes the workflow's status, or brings a
\* task to completed or failed, hands the new state to the store in the same
\* step, and the store then holds it unless it rejected the save; a task's
\* step to running is not saved on its own.
C9_TransitionsHandedToStore ==
    [][ StatusView(workflowState') # StatusView(workflowState)
          => \/ store'[WorkflowId] = <<Serialize(workflowState')>>
             \/ saveFailed' /\ ~saveFailed
             \/ OnlyStartsTasks ]_vars

\* a task has been run to completed and the store holds that
C9_Witness ==
    /\ pc = "execute_loop" /\ invoked # <<>>
    /\ workflowState.tasks[LastInvoked].status = "completed"
    /\ StoredState.tasks[LastInvoked].status = "completed"
    /\ StoredState.status = "running"

\* ------------------------------------------------------ C10
\* plan() then executeWorkflow(), or processTurn(), is about to return
RunReturns == pc = "return" /\ op \in {"executeWorkflow", "processTurn"}

AttemptedInPass(k) == executed /\ workflowState.tasks[k] # entry.tasks[k]

InFlight(position) == position \notin {"idle", "return"}

\* C11: at no time are two engine operations in progress against the same
\* workflow: of two managers that hold the same workflowId, at most one is
\* inside plan(), executeWorkflow() or processTurn().
C11_OneCallerPerWorkflow ==
    (parked.present /\ parked.workflowState.workflowId = workflowState.workflowId)
        => ~(InFlight(pc) /\ InFlight(parked.pc))

\* ------------------------------------------------------ C12
\* the step belongs to plan() or to executeWorkflow(), whether the host or
\* processTurn() called it
InPlanOrExecute ==
    \/ op' \in {"plan", "executeWorkflow"}
    \/ pc = "turn_execute"
    \/ (op = "processTurn" /\ executed)

\* the store rejects the save of this step
SaveRejectedNow == ~saveFailed /\ saveFailed'

\* the state this step of plan() or executeWorkflow() leaves in memory when
\* the store accepts its save, given the result the step received
AcceptedEffect ==
    IF pc = "idle" /\ op' = "plan"
    THEN [workflowState EXCEPT !.status = "running"]
    ELSE IF pc = "plan_saved"
    THEN [workflowState EXCEPT !.status = "failed", !.tasks = <<>>]
    ELSE IF pc = "plan_wait"
    THEN PlanOutcome(workflowState, lastResult')
    ELSE IF pc \in {"idle", "turn_execute"}
    THEN [workflowState EXCEPT
            !.status = IF Len(workflowState.tasks) = 0 /\ @ # "failed"
                       THEN "completed" ELSE "running"]
    ELSE IF pc = "execute_loop"
    THEN FailTaskStamped(StartTask(workflowState, i), i,
                         AgentNotFound(workflowState.tasks[i + 1].agentName))
    ELSE IF pc = "agent_wait"
    THEN AfterAgent(workflowState, i, lastResult', actionRunner)
    ELSE IF pc = "action_wait"
    THEN AfterAction(workflowState, i, lastResult'.action)
    ELSE [workflowState EXCEPT !.status = FinalStatus(workflowState)]

\* C12: in plan() and executeWorkflow() a save that fails never changes what
\* the engine does: a step whose save the store rejects leaves in memory
\* exactly the state the same step leaves, for the same planner or agent
\* result, when the save is accepted, and the method goes on without throwing.
C12_SaveFailureChangesNothing ==
    [][(InPlanOrExecute /\ SaveRejectedNow)
          => /\ workflowState' = AcceptedEffect
             /\ (pc' = "return" => returned' = "returned")
             /\ store' = store]_vars

\* executeWorkflow() has run a task to completion and returns completed, though
\* the store rejected its last save and still holds the running state
C12_Witness ==
    /\ pc = "return" /\ op = "executeWorkflow" /\ returned = "returned"
    /\ saveFailed
    /\ invoked # <<>>
    /\ workflowState.status = "completed"
    /\ store[WorkflowId][1].status = "running"

\* ------------------------------------------------------ C13
\* the step holds one of processTurn()'s two checkpoints: the save after the
\* new user input is appended, or the save after the new plan is installed
\* and the status set to pending
TurnCheckpoint ==
    /\ op' = "processTurn"
    /\ \/ pc = "idle"
       \/ (pc = "turn_wait" /\ ~TurnPlanFails(lastResult'))

\* C13: when the save at either checkpoint of processTurn() fails, the
\* workflow status becomes failed and the execution loop is not run for that
\* turn: processTurn() returns.
C13_CheckpointFailureIsFatal ==
    [][(TurnCheckpoint /\ SaveRejectedNow)
          => (workflowState'.status = "failed" /\ pc' = "return")]_vars

\* ------------------------------------------------------ C14
\* a timestamp field that is set holds a date value
DateOrUnset(d) == d \in {"Date", Undefined}

\* C14: for every workflow state the engine can produce, save(id, state)
\* followed by load(id) returns a state equal to the saved one, with the four
\* timestamps of every task being date values.
C14_SaveLoadRoundTrip ==
    \A id \in StoreIds :
        lastSaved[id] # Null =>
            /\ Loaded(id) = lastSaved[id]
            /\ \A k \in 1..Len(Loaded(id).tasks) :
                 LET t == Loaded(id).tasks[k]
                 IN  /\ t.createdAt = "Date" /\ t.updatedAt = "Date"
                     /\ DateOrUnset(t.startedAt) /\ DateOrUnset(t.completedAt)

\* ------------------------------------------------------ C15
\* C15: for every content string, entity-escaping it with escapeXml, placing
\* it in a well-formed file-type directive and translating that directive
\* yields a file action whose content equals the original string.
C15_EscapedContentRoundTrips ==
    call.fn = "translateFile"
        => (call.output.type = "file" /\ call.output.content = call.input)

\* ------------------------------------------------------ C16
\* a directive that has no type attribute, has type file but lacks filePath
\* or content, has type shell but lacks content, or has another type
Untranslatable(d) ==
    \/ d.type = Undefined
    \/ (d.type = "file" /\ ~(d.filePath /\ d.content))
    \/ (d.type = "shell" /\ ~d.content)
    \/ d.type \notin {Undefined, "file", "shell"}

\* C16: translating a directive that has no type attribute, has type file but
\* lacks filePath or content, has type shell but lacks content, or has any
\* type other than file and shell yields no action, and the task that
\* emitted the directive ends failed.
C16_BadDirectiveYieldsNoAction ==
    (call.fn = "translate" /\ Untranslatable(call.input))
        => /\ call.output.type = NullAction
           /\ call.task.status = "failed"
           /\ call.task.error # Undefined

\* a file directive without filePath has been translated by an engine that
\* has an ActionRunner: no action, and the task failed on the parse
C16_Witness ==
    /\ call.fn = "translate"
    /\ call.input = [type |-> "file", filePath |-> FALSE, content |-> TRUE]
    /\ call.hasRunner
    /\ call.output.type = NullAction
    /\ call.task.status = "failed" /\ call.task.error = ParseFailed

\* ------------------------------------------------------ C17
\* the step is a call of save, load or delete
StoreCall == call'.fn \in {"save", "load", "delete"}

\* C17: store operations on different workflow ids do not interfere: a save,
\* load or delete on id A leaves what load(B) returns unchanged for every
\* B # A, and takes its whole effect on its own key in one step.
C17_KeysDoNotInterfere ==
    [][StoreCall =>
          /\ \A B \in StoreIds \ {call'.id} :
               store'[B] = store[B] /\ Loaded(B)' = Loaded(B)
          /\ call'.fn = "save" => store'[call'.id] = <<Serialize(mem[call'.holder])>>
          /\ call'.fn = "delete" => store'[call'.id] = <<>>
          /\ call'.fn = "load" => store' = store]_vars

\* wf_1 has just been deleted while wf_2 is stored: wf_2 is still there
C17_Witness ==
    /\ call.fn = "delete" /\ call.id = WorkflowId
    /\ Loaded(WorkflowId) = Null
    /\ lastSaved["wf_2"] # Null
    /\ Loaded("wf_2") # Null

\* ------------------------------------------------------ C18
\* the state as JSON carries it through the store
Snapshot(ws) == IF ws = Null THEN Null ELSE Deserialize(Serialize(ws))

\* C18: load(id) returns the state as it was at the most recent save(id), or
\* absent if the id was never saved or was deleted since; a change made to an
\* in-memory state after a save is not visible through load until the next
\* save; and what one caller loaded is not changed by what another caller
\* does to its own copy.
C18_LoadReturnsLastSaved ==
    [][/\ call'.fn = "load" =>
            mem'[call'.holder] = Snapshot(lastSaved[call'.id])
       /\ call'.fn = "mutate" =>
            \A id \in StoreIds : Loaded(id)' = Loaded(id)
       /\ call'.fn \in {"load", "mutate"} =>
            \A o \in Holders \ {call'.holder} : mem'[o] = mem[o]
       /\ call'.fn \in {"save", "delete"} => mem' = mem]_vars

\* holder a saved a state and then changed it; holder b has just loaded the
\* same id and holds the state as it was saved, not as a holds it now
C18_Witness ==
    /\ call.fn = "load" /\ call.holder = "b"
    /\ mem["a"] # Null /\ mem["b"] # Null
    /\ mem["a"].workflowId = call.id
    /\ mem["b"] = lastSaved[call.id]
    /\ mem["a"].status # mem["b"].status

\* ------------------------------------------------------ C19
\* m is context overwritten key by key with updates
ShallowOverwrite(context, updates, m) ==
    /\ DOMAIN m = (DOMAIN context) \cup (DOMAIN updates)
    /\ \A k \in DOMAIN updates : m[k] = updates[k]
    /\ \A k \in (DOMAIN context) \ (DOMAIN updates) : m[k] = context[k]

\* C19: merging a result's shared-context updates into sharedContext is a
\* shallow overwrite: every key present in the update gets the update's
\* value, and every key absent from the update keeps its previous value.
C19_MergeIsShallowOverwrite ==
    call.fn = "merge"
        => /\ ShallowOverwrite(call.context, call.updates, call.output)
           /\ ShallowOverwrite(call.context, call.updates, call.turnOutput)

\* an update has replaced a nested object as a whole (the key b of the old
\* object is gone) and left the plan text, which it does not name, alone
C19_Witness ==
    /\ call.fn = "merge"
    /\ "files" \in DOMAIN call.context /\ "files" \in DOMAIN call.updates
    /\ call.context["files"] = [a |-> "y", b |-> "z"]
    /\ call.output["files"] = [a |-> "x"]
    /\ "rawPlanText" \in (DOMAIN call.context) \ (DOMAIN call.updates)
    /\ call.output["rawPlanText"] = call.context["rawPlanText"]

\* ------------------------------------------------------ C20
\* the last awaited call returned a result that carries updates
ResultCarriesUpdates ==
    lastResult.kind = "return" /\ lastResult.sharedContextUpdates # NoUpdates
\* the result came from the planner
FromPlanner == "plannedTasks" \in DOMAIN lastResult

\* every key of the updates is in the context with the update's value
Carries(context, updates) ==
    \A k \in DOMAIN updates : k \in DOMAIN context /\ context[k] = updates[k]
\* every key of the updates is in the context as it was in `before`
Untouched(context, before, updates) ==
    \A k \in DOMAIN updates :
        /\ (k \in DOMAIN context) = (k \in DOMAIN before)
        /\ k \in DOMAIN context => context[k] = before[k]

\* C20: after every agent call and every planning call that returns a result
\* carrying shared-context updates, those updates are merged into
\* sharedContext, whether the result is flagged success or failure.
C20_UpdatesAlwaysMerged ==
    ResultCarriesUpdates
        => Carries(workflowState.sharedContext, lastResult.sharedContextUpdates)

\* whether plan(), respectively processTurn(), accepts the planner's result
PlanAccepted ==
    /\ lastResult.status = "success"
    /\ lastResult.plannedTasks.present
    /\ Len(lastResult.plannedTasks.list) > 0
TurnPlanAccepted ==
    lastResult.status = "success" /\ lastResult.plannedTasks.present

\* C20 (amended): the updates of an agent's result are merged whether the
\* result is flagged success or failure; the updates of a planner's result
\* are merged only when the planning is accepted (plan(): success with a
\* non-empty task list; processTurn(): success with a task list), and are
\* otherwise left out of sharedContext.
C20_UpdatesMergedUnlessPlanningFails ==
    ResultCarriesUpdates
        => IF ~FromPlanner \/ (op = "plan" /\ PlanAccepted)
              \/ (op = "processTurn" /\ TurnPlanAccepted)
           THEN Carries(workflowState.sharedContext,
                        lastResult.sharedContextUpdates)
           ELSE Untouched(workflowState.sharedContext, entry.sharedContext,
                          lastResult.sharedContextUpdates)

\* an agent has returned a failure result that carries updates, and the
\* updates are in sharedContext
C20_Witness ==
    /\ ResultCarriesUpdates /\ ~FromPlanner
    /\ lastResult.status = "failure"
    /\ workflowState.tasks[i + 1].status = "failed"
    /\ Carries(workflowState.sharedContext, lastResult.sharedContextUpdates)

\* ------------------------------------------------------ C21
\* the workflow has been constructed and no method has been called on it
NewlyConstructed == pc = "idle" /\ returned = "none"

\* C21: a newly constructed workflow has status pending, an empty task list
\* and currentTaskIndex 0, and that state is what the store holds for its
\* workflowId.
C21_NewWorkflowIsPendingAndStored ==
    NewlyConstructed =>
        /\ workflowState.status = "pending"
        /\ workflowState.tasks = <<>>
        /\ workflowState.currentTaskIndex = 0
        /\ store[workflowState.workflowId] = <<Serialize(workflowState)>>
        /\ StoredState.status = "pending"
        /\ StoredState.tasks = <<>>
        /\ StoredState.currentTaskIndex = 0

\* the host has constructed the workflow and registered its agents
C21_Witness ==
    /\ NewlyConstructed
    /\ agents = RegisteredAgentNames
    /\ StoredState.originalUserInput = InitialUserInput

\* ------------------------------------------------------ C22
\* the user entries the turns so far have added to the history
TurnEntries(history) == SubSeq(history, 2, Len(history))

\* C22: no engine operation changes workflowId or originalUserInput; the text
\* of a new turn is appended to sharedContext.conversationHistory and never
\* written into originalUserInput.
C22_IdentityIsImmutable ==
    LET history == workflowState.sharedContext["conversationHistory"]
    IN  /\ workflowState.workflowId = WorkflowId
        /\ workflowState.originalUserInput = InitialUserInput
        /\ Len(history) = 1 + turns
        /\ history[1] = UserMessage(InitialUserInput)
        /\ \A k \in 1..turns :
             TurnEntries(history)[k] \in { UserMessage(t) : t \in TurnInputs }

\* processTurn() has run on a workflow that plan() and executeWorkflow() had
\* run before, and has appended its input
C22_Witness ==
    /\ pc = "return" /\ op = "processTurn"
    /\ Len(workflowState.tasks) > 0
    /\ Len(workflowState.sharedContext["conversationHistory"]) = 2
    /\ workflowState.originalUserInput = InitialUserInput

\* ------------------------------------------------------ C23
\* plan() is about to return
PlanReturns == pc = "return" /\ op = "plan"

\* the planner is registered and has returned a success result with a
\* non-empty task list
PlannedSomething ==
    /\ PlanningAgentName \in agents
    /\ lastResult.kind = "return"
    /\ lastResult.status = "success"
    /\ lastResult.plannedTasks.present
    /\ lastResult.plannedTasks.list # <<>>

\* C23: plan() on a fresh workflow ends with status pending and the planner's
\* task list exactly when the planner is registered and returns a success
\* result with a non-empty task list; in every other case it ends with
\* status failed and an empty task list; in all cases the end state is handed
\* to the store's save, so that the store holds it unless it rejected that
\* very save (it then still holds the running state plan() saved first).
C23_PlanEndsPendingOrFailed ==
    PlanReturns =>
        /\ returned = "returned"
        /\ IF PlannedSomething
           THEN /\ workflowState.status = "pending"
                /\ workflowState.tasks = lastResult.plannedTasks.list
           ELSE /\ workflowState.status = "failed"
                /\ workflowState.tasks = <<>>
        /\ \/ StoredState = Serialize(workflowState)
           \/ saveFailed /\ StoredState.status = "running"

\* plan() has got a success result with an empty task list, and has failed
\* the workflow
C23_Witness ==
    /\ PlanReturns
    /\ lastResult.kind = "return" /\ lastResult.status = "success"
    /\ lastResult.plannedTasks.present /\ lastResult.plannedTasks.list = <<>>
    /\ workflowState.status = "failed"
    /\ StoredState.status = "failed"

\* ------------------------------------------------------ C24
\* the pass in flight went past the entry checks of executeWorkflow()
PassedEntryChecks ==
    /\ executed
    /\ entry.tasks # <<>>
    /\ ~IsTerminal(entry.status)

\* the task invoked last has been settled with lastResult
TaskSettled ==
    /\ PassedEntryChecks
    /\ pc \in {"execute_loop", "execute_final", "return"}
    /\ invoked # <<>>

\* the loop has stopped at task i because its agent is not registered
AgentMissing ==
    /\ PassedEntryChecks
    /\ pc \in {"execute_final", "return"}
    /\ returned # "threw"
    /\ i < Len(workflowState.tasks)
    /\ workflowState.tasks[i + 1].agentName \notin agents

\* the agent returned success and either no directive, or a directive that
\* an action runner is there for, that translates, and whose action reports
\* complete
TaskSucceeded(r) ==
    /\ r.kind = "return"
    /\ r.status = "success"
    /\ \/ ~r.actionString.present
       \/ /\ actionRunner
          /\ parseBoltActionString(r.actionString) # NullAction
          /\ r.action.kind = "state"
          /\ r.action.status = "complete"

\* task k (1-based) is failed with an error, the workflow is failed, the loop
\* has stopped, no later task was touched, and the state went to the store
FailedAndStopped(k) ==
    /\ workflowState.tasks[k].status = "failed"
    /\ workflowState.tasks[k].error \notin {Undefined, ""}
    /\ workflowState.status = "failed"
    /\ pc # "execute_loop"
    /\ \A j \in (k + 1)..Len(workflowState.tasks) :
         workflowState.tasks[j] = entry.tasks[j]
    /\ \/ StoredState = Serialize(workflowState)
       \/ saveFailed /\ StoredState.status = "running"

\* C24: a task that executeWorkflow() attempts ends completed exactly when
\* its agent is registered, returns success, and either carries no action
\* directive or an action runner is configured, the directive translates and
\* the executed action reports complete; in every other case the task ends
\* failed with an error, the workflow becomes failed, the state is handed to
\* the store's save (which holds it unless it rejected that save) and no
\* later task is attempted.
C24_TaskCompletesOrStopsTheLoop ==
    /\ TaskSettled =>
         IF TaskSucceeded(lastResult)
         THEN /\ workflowState.tasks[LastInvoked].status = "completed"
              /\ workflowState.tasks[LastInvoked].agentName \in agents
         ELSE FailedAndStopped(LastInvoked)
    /\ AgentMissing => FailedAndStopped(i + 1)

\* a task's action was run and reported failed, with a pending task behind it
C24_Witness ==
    /\ TaskSettled
    /\ lastResult.action.kind = "state" /\ lastResult.action.status = "failed"
    /\ workflowState.tasks[LastInvoked].status = "failed"
    /\ LastInvoked < Len(workflowState.tasks)
    /\ workflowState.tasks[LastInvoked + 1].status = "pending"

\* ------------------------------------------------------ C25
\* executeWorkflow(), called by the host or by processTurn(), is about to
\* settle its promise
ExecuteSettles == pc = "return" /\ executed

\* C25: executeWorkflow() always returns when every agent and action call
\* returns; when it returns the workflow status is completed or failed, never
\* running, pending or paused; and it has invoked at most
\* tasks.length - currentTaskIndex agents.
C25_ExecuteReturnsTerminal ==
    ExecuteSettles =>
        /\ returned = "returned"
        /\ IsTerminal(workflowState.status)
        /\ Len(invoked) <= Len(entry.tasks) - entry.currentTaskIndex

\* ------------------------------------------------------ C26
\* processTurn() has called executeWorkflow() on a list that holds nothing
\* but tasks completed in an earlier pass: the new plan added no task and no
\* non-completed task was there to keep
NothingToRun ==
    /\ op = "processTurn"
    /\ executed
    /\ \A k \in 1..Len(entry.tasks) :
         entry.tasks[k].status = "completed" /\ entry.tasks[k].completedAt = "Date"

\* C26: when processTurn() obtains a successful plan that adds no task while
\* no non-completed task remains, the execution call that follows handles
\* it: processTurn() returns normally with a terminal workflow status,
\* invokes no task agent and changes no task.
C26_EmptyReplanIsHandled ==
    (NothingToRun /\ pc = "return") =>
        /\ returned = "returned"
        /\ IsTerminal(workflowState.status)
        /\ invoked = <<>>
        /\ workflowState.tasks = entry.tasks

\* ------------------------------------------------------ C27
\* C27: after the post-loop status resolution of executeWorkflow(), if every
\* task in the list is completed then the workflow status is completed,
\* whatever the value of currentTaskIndex.
C27_AllCompletedResolvesCompleted ==
    (ExecuteSettles /\ PassedEntryChecks /\ returned = "returned"
        /\ \A k \in 1..Len(workflowState.tasks) :
             workflowState.tasks[k].status = "completed")
      => workflowState.status = "completed"

\* ------------------------------------------------------ C28
\* processTurn() is about to return, its planning having been fatal: the
\* planner was not registered, threw, returned a failure result or returned
\* no task list
TurnPlanningFatal ==
    /\ pc = "return" /\ op = "processTurn"
    /\ ~executed
    /\ \/ PlanningAgentName \notin agents /\ workflowState.error = TurnNoPlanner
       \/ lastResult.kind = "throw"
       \/ /\ lastResult.kind = "return"
          /\ lastResult.status = "failure" \/ ~lastResult.plannedTasks.present

\* C28: in processTurn(), when the planning agent is not registered, throws,
\* returns a failure result or returns no task list, the workflow status
\* becomes failed and is handed to the store's save (which holds it unless it
\* rejected that save), the execution loop is not run, no task agent is
\* invoked, and the task list, every completed task included, and
\* currentTaskIndex are left unchanged.
C28_FailedReplanKeepsTasks ==
    /\ (pc = "return" /\ op = "processTurn" /\ ~executed
          /\ (PlanningAgentName \notin agents \/ lastResult.kind = "throw"))
         => TurnPlanningFatal \/ workflowState.error = TurnSaveFailed
    /\ TurnPlanningFatal =>
         /\ returned = "returned"
         /\ workflowState.status = "failed"
         /\ invoked = <<>>
         /\ workflowState.tasks = entry.tasks
         /\ workflowState.currentTaskIndex = entry.currentTaskIndex
         /\ \/ StoredState = Serialize(workflowState)
            \/ saveFailed /\ StoredState.status \in {"processing_turn", "planning"}

\* the planner has returned a failure result in a turn on a workflow that
\* holds a completed task, and the task is still there
C28_Witness ==
    /\ TurnPlanningFatal
    /\ lastResult.kind = "return" /\ lastResult.status = "failure"
    /\ \E k \in 1..Len(workflowState.tasks) :
         workflowState.tasks[k].status = "completed"
    /\ workflowState.currentTaskIndex > 0
    /\ StoredState.status = "failed"

\* ------------------------------------------------------ C29
\* processTurn() has replanned and is about to call executeWorkflow()
Replanned == pc = "turn_execute"

\* the positions (1-based) of the pending and running tasks
RunnablePositions(tasks) ==
    { k \in 1..Len(tasks) : tasks[k].status \in {"pending", "running"} }

\* how many tasks of the list are completed
CompletedCount(tasks) ==
    Cardinality({ k \in 1..Len(tasks) : tasks[k].status = "completed" })

\* C29: after a successful replanning in processTurn(), currentTaskIndex is
\* the index of the first task of the new list that is pending or running;
\* if there is none but some task is not completed it is 0; so when the new
\* tasks are all pending and there is at least one, it is the number of
\* completed tasks that were retained.
C29_CursorAtFirstRunnable ==
    Replanned =>
        LET tasks == workflowState.tasks
            cursor == workflowState.currentTaskIndex
            new == lastResult.plannedTasks.list
        IN  /\ RunnablePositions(tasks) # {} =>
                 /\ cursor + 1 \in RunnablePositions(tasks)
                 /\ \A k \in RunnablePositions(tasks) : cursor + 1 <= k
            /\ (RunnablePositions(tasks) = {} /\ CompletedCount(tasks) # Len(tasks))
                 => cursor = 0
            /\ (new # <<>> /\ \A k \in 1..Len(new) : new[k].status = "pending")
                 => cursor = CompletedCount(entry.tasks)

\* a replanning has kept completed tasks and put pending ones behind them
C29_Witness ==
    /\ Replanned
    /\ CompletedCount(entry.tasks) > 0
    /\ lastResult.plannedTasks.list # <<>>
    /\ \A k \in 1..Len(lastResult.plannedTasks.list) :
         lastResult.plannedTasks.list[k].status = "pending"
    /\ workflowState.currentTaskIndex = CompletedCount(entry.tasks)
    /\ Len(workflowState.tasks) > workflowState.currentTaskIndex

\* ------------------------------------------------------ C30
\* this step hands the new state to the store, which holds it afterwards
\* unless it rejects the save in this very step
HandedToStore ==
    \/ store'[WorkflowId] = <<Serialize(workflowState')>>
    \/ SaveRejectedNow /\ store' = store

\* C30: started from any workflow status, a processTurn() whose planning
\* succeeds appends exactly one user entry to conversationHistory before its
\* first save, moves the status through processing_turn, planning and
\* pending in that order with a save after each, and then runs the execution
\* loop so that the turn ends with the workflow completed or failed.
C30_TurnRunsThroughToTerminal ==
    [][ /\ (pc = "idle" /\ op' = "processTurn") =>
              /\ \E t \in TurnInputs :
                   workflowState'.sharedContext["conversationHistory"] =
                       Append(workflowState.sharedContext["conversationHistory"],
                              UserMessage(t))
              /\ pc' = "turn_saved" =>
                   /\ workflowState'.status = "processing_turn"
                   /\ store'[WorkflowId] = <<Serialize(workflowState')>>
        /\ (pc = "turn_saved" /\ pc' = "turn_wait") =>
              /\ workflowState.status = "processing_turn"
              /\ workflowState'.status = "planning"
              /\ HandedToStore
        /\ (pc = "turn_wait" /\ pc' = "turn_execute") =>
              /\ workflowState.status = "planning"
              /\ workflowState'.status = "pending"
              /\ HandedToStore
        /\ pc = "turn_execute" => executed'
        /\ (op' = "processTurn" /\ executed' /\ pc' = "return") =>
              /\ returned' = "returned"
              /\ IsTerminal(workflowState'.status) ]_vars

\* ------------------------------------------------------ C31
\* the planner of a turn is running on the input processTurn() built
PlannerRuns == pc = "turn_wait"

\* the tasks of a list that are pending, running or failed, in list order
Unfinished(tasks) ==
    SelectSeq(tasks, LAMBDA t : t.status \in {"pending", "running", "failed"})

\* C31: the planning input built by processTurn() contains the whole
\* conversation history with the new user input as its last entry, and
\* exactly the existing tasks whose status is not completed (pending, running
\* and failed ones), in their list order.
C31_PlanningInputIsHistoryAndOpenTasks ==
    PlannerRuns =>
        LET history == planningInput.conversationHistory
            before == entry.sharedContext["conversationHistory"]
        IN  /\ planningInput.present
            /\ Len(history) = Len(before) + 1
            /\ SubSeq(history, 1, Len(before)) = before
            /\ history[Len(history)] \in { UserMessage(t) : t \in TurnInputs }
            /\ history = workflowState.sharedContext["conversationHistory"]
            /\ planningInput.existingTasks = Unfinished(entry.tasks)
            /\ workflowState.tasks = entry.tasks

\* the planner of a turn runs on a workflow that holds a completed task
\* followed by a failed one: its input lists the failed task only
C31_Witness ==
    /\ PlannerRuns
    /\ Len(entry.tasks) >= 2
    /\ entry.tasks[1].status = "completed"
    /\ entry.tasks[2].status = "failed"
    /\ Len(planningInput.existingTasks) = Len(entry.tasks) - 1
    /\ planningInput.existingTasks[1].status = "failed"

\* ------------------------------------------------------ C32
\* the position (1-based) in the task list of the task with this id
PositionOf(id) ==
    CHOOSE k \in 1..Len(workflowState.tasks) : workflowState.tasks[k].id = id

\* the tasks that are running
RunningPositions ==
    { k \in 1..Len(workflowState.tasks) : workflowState.tasks[k].status = "running" }

PassStep ==
    \/ ~executed /\ executed'
    \/ pc \in {"execute_loop", "agent_wait", "action_wait", "execute_final"}

\* C33: during one executeWorkflow() pass currentTaskIndex never decreases,
\* and it changes only by being set to i + 1 when the task at index i has
\* just been processed (the agent or its action has ended and the task is
\* completed).
C33_CursorMovesForwardOnly ==
    [][PassStep =>
         /\ workflowState'.currentTaskIndex >= workflowState.currentTaskIndex
         /\ workflowState'.currentTaskIndex # workflowState.currentTaskIndex =>
              /\ pc \in {"agent_wait", "action_wait"}
              /\ workflowState'.currentTaskIndex = i + 1
              /\ workflowState'.tasks[i + 1].status = "completed"
              /\ workflowState.tasks[i + 1].status = "running"]_vars

\* a resumed pass that started at index 1 has moved the cursor to 2
C33_Witness ==
    /\ executed
    /\ pc = "execute_loop"
    /\ entry.currentTaskIndex = 1
    /\ workflowState.currentTaskIndex = 2
    /\ i = 2

\* ------------------------------------------------------ C34
\* C34: every task that executeWorkflow() moves to a terminal status
\* (completed or failed, by any path) has completedAt set in the state that
\* is saved with that terminal status.
C34_TerminalTasksAreStamped ==
    \A k \in 1..Len(workflowState.tasks) :
        ( /\ AttemptedInPass(k)
          /\ workflowState.tasks[k].status \in {"completed", "failed"}
          /\ StoredState = Serialize(workflowState) ) =>
            StoredState.tasks[k].completedAt = "string"

\* ------------------------------------------------------ C35
\* the engine has assigned this task's status: executeWorkflow() started it
EngineAssigned(task) == task.startedAt # Undefined

\* C35: a task carries an error only when its status is failed, and every
\* task the engine has failed carries a non-empty error: no pending, running
\* or completed task has one.
C35_ErrorIffFailed ==
    \A k \in 1..Len(workflowState.tasks) :
        LET task == workflowState.tasks[k]
        IN  /\ task.error # Undefined => task.status = "failed"
            /\ (EngineAssigned(task) /\ task.status = "failed") =>
                 task.error \notin {Undefined, ""}
            /\ (EngineAssigned(task) /\ task.status # "failed") =>
                 task.error = Undefined

\* a pass has completed one task and failed the next for a missing agent:
\* the first has no error, the second has one
C35_Witness ==
    /\ pc = "return"
    /\ Len(workflowState.tasks) >= 2
    /\ AttemptedInPass(1) /\ AttemptedInPass(2)
    /\ workflowState.tasks[1].status = "completed"
    /\ workflowState.tasks[1].error = Undefined
    /\ workflowState.tasks[2].status = "failed"
    /\ workflowState.tasks[2].agentName \notin agents
    /\ workflowState.tasks[2].error # Undefined

\* ------------------------------------------------------ C36
\* C36: whenever the workflow status is completed, every task of the task
\* list is completed (an empty list included).
C36_CompletedMeansAllTasksCompleted ==
    workflowState.status = "completed" =>
        \A k \in 1..Len(workflowState.tasks) :
            workflowState.tasks[k].status = "completed"

\* a pass over two tasks has resolved the workflow to completed
C36_Witness ==
    /\ pc = "return"
    /\ executed
    /\ workflowState.status = "completed"
    /\ Len(workflowState.tasks) = 2
    /\ Len(invoked) = 2

\* ------------------------------------------------------ C37
\* the planner emitted only pending tasks: every task the engine has not
\* started is still pending
OnlyPendingPlanned(ws) ==
    \A k \in 1..Len(ws.tasks) :
        ws.tasks[k].startedAt = Undefined => ws.tasks[k].status = "pending"

\* every task at an index below currentTaskIndex is completed
CompletedPrefix(ws) ==
    \A k \in 1..Len(ws.tasks) :
        k - 1 < ws.currentTaskIndex => ws.tasks[k].status = "completed"

\* C37: when the planner only emits pending tasks, every task at an index
\* below currentTaskIndex is completed, in the in-memory state and in the
\* state the store holds.
C37_CompletedPrefixBelowCursor ==
    /\ OnlyPendingPlanned(workflowState) => CompletedPrefix(workflowState)
    /\ OnlyPendingPlanned(StoredState) => CompletedPrefix(StoredState)

\* a pass has completed the first task and failed the second, the third was
\* never attempted, and this state is the stored one
C37_Witness ==
    /\ pc = "return"
    /\ OnlyPendingPlanned(workflowState)
    /\ Len(workflowState.tasks) = 3
    /\ workflowState.currentTaskIndex = 1
    /\ workflowState.tasks[1].status = "completed"
    /\ workflowState.tasks[2].status = "failed"
    /\ workflowState.tasks[3].status = "pending"
    /\ StoredState = Serialize(workflowState)

\* ------------------------------------------------------ C38
\* the sequence a is an initial part of the sequence b
IsPrefix(a, b) == Len(a) <= Len(b) /\ SubSeq(b, 1, Len(a)) = a
\* the conversation history of a context
HistoryOf(context) == context["conversationHistory"]

\* processTurn()'s append puts exactly one user entry at the end
OneEntryAppended ==
    call.fn = "appendTurn" =>
        HistoryOf(call.output) = Append(HistoryOf(call.context), UserMessage(call.input))

\* C38 (as stated): conversationHistory only grows: processTurn() appends
\* exactly one user entry at the end, and merging an agent's or a planner's
\* shared-context updates never removes or replaces an existing entry.
C38_HistoryOnlyGrows ==
    /\ OneEntryAppended
    /\ call.fn = "merge" =>
         /\ IsPrefix(HistoryOf(call.context), HistoryOf(call.output))
         /\ IsPrefix(HistoryOf(call.context), HistoryOf(call.turnOutput))

\* C38 (amended): processTurn() appends exactly one user entry at the end;
\* a merge of shared-context updates leaves conversationHistory as it is when
\* the updates do not carry the key conversationHistory, and replaces it
\* whole by the update's value when they do.
C38_HistoryGrowsUnlessUpdated ==
    /\ OneEntryAppended
    /\ call.fn = "merge" =>
         LET after == IF "conversationHistory" \in DOMAIN call.updates
                      THEN HistoryOf(call.updates)
                      ELSE HistoryOf(call.context)
         IN  /\ HistoryOf(call.output) = after
             /\ HistoryOf(call.turnOutput) = after

\* a second turn's input has been appended to a history of two entries
C38_Witness ==
    /\ call.fn = "appendTurn"
    /\ Len(HistoryOf(call.context)) = 2
    /\ Len(HistoryOf(call.output)) = 3
    /\ HistoryOf(call.output)[3] = UserMessage(call.input)
    /\ "rawPlanText" \in DOMAIN call.output

\* ------------------------------------------------------ C39
\* C39: whenever plan(), executeWorkflow() or processTurn() returns and no
\* save has been rejected, the state the store holds for the workflowId is
\* the in-memory workflow state (serialized): nothing the operation changed
\* is left unsaved.
C39_StoreEqualsMemoryAtReturn ==
    (pc = "return" /\ op \in {"plan", "executeWorkflow", "processTurn"} /\ ~saveFailed)
        => store[WorkflowId] = <<Serialize(workflowState)>>

\* processTurn() returns after replanning and a pass that completed a task,
\* every save having succeeded
C39_Witness ==
    /\ pc = "return"
    /\ op = "processTurn"
    /\ ~saveFailed
    /\ Len(invoked) >= 1
    /\ workflowState.status = "completed"
    /\ StoredState.status = "completed"
    /\ StoredState.currentTaskIndex = Len(workflowState.tasks)

\* ------------------------------------------------------ C40
\* the position of the first task of the latest plan: the first task planned
\* for the latest user request
FirstPlanned ==
    LET history == workflowState.sharedContext["conversationHistory"]
        latest == history[Len(history)].content
    IN  CHOOSE k \in 1..Len(workflowState.tasks) :
            /\ workflowState.tasks[k].input.latestUserRequest = latest
            /\ \A j \in 1..(k - 1) :
                 workflowState.tasks[j].input.latestUserRequest # latest

\* C40: in the chat action's configuration (no ActionRunner; PlanningAgent,
\* FileAgent and CodeAgent registered; no filePath in the planned inputs), a
\* workflow whose first planned task is bound to an agent other than
\* PlanningAgent is never completed, and its execution ends with that task
\* failed and the workflow failed.
C40_ChatWorkflowFailsAtFirstTask ==
    workflowState.tasks[FirstPlanned].agentName # PlanningAgentName =>
        /\ workflowState.status # "completed"
        /\ workflowState.status \notin {"pending", "running"} =>
             /\ workflowState.status = "failed"
             /\ workflowState.tasks[FirstPlanned].status = "failed"
             /\ workflowState.tasks[FirstPlanned].error # Undefined
        /\ (pc = "return" /\ executed) => workflowState.status = "failed"

\* a replanned workflow whose first new task is bound to CodeAgent has
\* ended: that task failed for its missing filePath, the workflow is failed
C40_Witness ==
    /\ pc = "return"
    /\ executed
    /\ FirstPlanned = 2
    /\ workflowState.tasks[2].agentName = "CodeAgent"
    /\ workflowState.tasks[2].status = "failed"
    /\ workflowState.tasks[2].error = "Missing filePath for CodeAgent"
    /\ workflowState.status = "failed"
    /\ ~actionRunner

====
